---- MODULE Spec2Model ----
(***************************************************************************)
(* A model of the MazeWar server: the client registry, the per-connection  *)
(* service task, the player module, the maze and the server lifecycle.     *)
(*                                                                         *)
(* Every task is a program counter machine.  A step of the model is one    *)
(* critical section of the C code (the code between a lock and its         *)
(* unlock), or one unlocked read or write of shared memory.  A task that   *)
(* reads or writes freed memory, or dereferences NULL, stops the model in  *)
(* a state whose `ub' names what happened: the behaviour of the program is *)
(* undefined from there on.                                                *)
(***************************************************************************)
EXTENDS Integers, Sequences, FiniteSets, TLC

(***************************************************************************)
(* Bounds of the model.                                                    *)
(***************************************************************************)
NumTasks == 3      \* service task slots (connections alive at the same time)
NumWorkers == 3    \* worker threads of the registry test
MaxAccepts == 2    \* connections accepted (threads created) in one run
MaxFrames == 3     \* frames read from the clients in one run
NumAvatars == 3    \* avatars of the player table
MaxAvatar == 2     \* avatars the clients of a server started afresh ask for
MazeRows == 2      \* rows of the maze template
MazeCols == 1      \* columns of the maze template
MaxPayload == 2    \* bytes of payload of a frame given to the codec
MaxDepth == 3      \* depth asked of maze_get_view taken on its own
MaxMsg == 4        \* bytes of a short chat message; a long one has this many around the size of the buffer
MaxIntr == 2       \* signals that interrupt the reads of one proto_recv_packet

(***************************************************************************)
(* Program constants.                                                      *)
(***************************************************************************)
MAX_CLIENTS == 128
VIEW_DEPTH == 8

Tasks == 1..NumTasks
Workers == 1..NumWorkers
Threads == Tasks \cup Workers
NULL == 0

(***************************************************************************)
(* The state.                                                              *)
(***************************************************************************)
VARIABLES
    \* struct client_registry
    client_fds,     \* slot -> fd, for the slots that do not hold -1
    count,          \* number of registered clients
    empty,          \* value of the semaphore `empty'
    creg_live,      \* FALSE once creg_fini has freed the registry
    \* the task that runs the lifecycle (main / terminate / the test body)
    lpc,            \* its program counter
    host,           \* the task the SIGHUP handler runs in (0: main, -1: the test)
    listening,      \* the listening socket is open
    rdshut,         \* fds whose read side creg_shutdown_all has shut down
    wfe_empty,      \* the local `empty' of creg_wait_for_empty
    naccept,        \* connections accepted (threads created) so far
    \* service tasks (and the workers of the registry test)
    task,           \* per thread: program counter and locals
    nrecv,          \* frames read so far
    \* the player module
    player_map,     \* avatar -> record (NULL: none)
    rec,            \* the PLAYER records allocated so far
    \* the maze module
    maze,           \* row -> column -> cell
    maze_live,      \* FALSE once maze_fini has freed the grid
    \* undefined behaviour reached ("none" while there is none)
    ub,
    \* history variables
    drained,        \* an unregister took count from 1 to 0 since wait_for_empty's check
    spurious,       \* an unregister that did not take count from 1 to 0 has posted
    \* the codec on one connection (protocol.c), taken on its own
    px,             \* the host's byte order and the caller's frame
    snd,            \* proto_send_packet: position, bytes still to write
    net,            \* the bytes written and not yet read
    rcv,            \* proto_recv_packet: position, bytes read, result
    \* one call of a function of the maze or player module, taken on its own
    call            \* its arguments and, once it has returned, its result

cregVars == <<client_fds, count, empty, creg_live>>
lifeVars == <<lpc, host, listening, rdshut, wfe_empty, naccept>>
gameVars == <<player_map, rec, maze, maze_live>>
histVars == <<drained, spurious>>
unitVars == <<px, snd, net, rcv, call>>
serverVars == <<cregVars, lifeVars, task, nrecv, gameVars, ub, histVars>>
vars == <<serverVars, unitVars>>

Running == ub = "none" /\ lpc # "exited"

\* The model stops: the program's behaviour is undefined from here on.
Halt(kind) ==
    /\ ub' = kind
    /\ UNCHANGED <<cregVars, lifeVars, task, nrecv, unitVars, gameVars, histVars>>

(***************************************************************************)
(* The client registry (client_registry.c).                                *)
(***************************************************************************)
Slots == 0..(MAX_CLIENTS - 1)

\* The slots of client_fds that hold `fd'.
SlotsOf(fds, fd) == {i \in DOMAIN fds : fds[i] = fd}

Lowest(S) == CHOOSE i \in S : \A j \in S : i <= j

\* creg_register: the first slot holding -1 takes fd; nothing when none is free.
creg_register_fds(fds, fd) ==
    LET free == Slots \ DOMAIN fds IN
    IF free = {} THEN fds
    ELSE [i \in DOMAIN fds \cup {Lowest(free)} |->
             IF i \in DOMAIN fds THEN fds[i] ELSE fd]

creg_register_count(fds, n) ==
    IF Slots \ DOMAIN fds = {} THEN n ELSE n + 1

\* creg_unregister: the first slot holding fd is set to -1.
creg_unregister_fds(fds, fd) ==
    IF SlotsOf(fds, fd) = {} THEN fds
    ELSE [i \in DOMAIN fds \ {Lowest(SlotsOf(fds, fd))} |-> fds[i]]

creg_unregister_count(fds, fd, n) ==
    IF SlotsOf(fds, fd) = {} THEN n ELSE n - 1

\* creg_unregister posts the semaphore when count is 0 after the search.
creg_unregister_post_never(n, sem) == sem
creg_unregister_post(n, sem) ==
    IF n = 0 THEN sem + 1 ELSE sem

\* The fds creg_shutdown_all shuts down: those of the slots not holding -1.
creg_shutdown_all_fds(fds) == {fds[i] : i \in DOMAIN fds}

\* creg_register(client_registry, fd) as one critical section.
CregRegister(fd) ==
    /\ client_fds' = creg_register_fds(client_fds, fd)
    /\ count' = creg_register_count(client_fds, count)
    /\ UNCHANGED <<empty, creg_live, histVars>>

\* creg_unregister(client_registry, fd) as one critical section.
CregUnregister(fd) ==
    LET n == creg_unregister_count(client_fds, fd, count) IN
    /\ client_fds' = creg_unregister_fds(client_fds, fd)
    /\ count' = n
    /\ empty' = creg_unregister_post(n, empty)
    /\ drained' = (drained \/ (lpc = "wfe_wait" /\ n = 0 /\ count = 1))
    /\ spurious' = (spurious \/ (empty' # empty /\ ~(n = 0 /\ count = 1)))
    /\ UNCHANGED creg_live

\* Where creg_wait_for_empty returns to.
AfterWait == IF host = -1 THEN "test_join" ELSE "creg_fini"

\* creg_wait_for_empty: the check of count under the mutex.
WfeCheck ==
    /\ Running
    /\ lpc = "wfe_entry"
    /\ wfe_empty' = (count = 0)
    /\ lpc' = IF count = 0 THEN AfterWait ELSE "wfe_wait"
    /\ drained' = FALSE
    /\ UNCHANGED <<cregVars, host, listening, rdshut, naccept, task, nrecv, unitVars,
                   gameVars, ub, spurious>>

\* creg_wait_for_empty: sem_wait(&cr->empty).
WfeSemWait ==
    /\ Running
    /\ lpc = "wfe_wait"
    /\ empty > 0
    /\ empty' = empty - 1
    /\ lpc' = AfterWait
    /\ UNCHANGED <<client_fds, count, creg_live, host, listening, rdshut,
                   wfe_empty, naccept, task, nrecv, unitVars, gameVars, ub, histVars>>

(***************************************************************************)
(* Threads.                                                                *)
(***************************************************************************)
NoPkt == <<"NONE", 0>>

\* A slot without a thread; also the locals of a thread that starts.
\* `stale' is a history field: the records that were in player_map when the
\* running operation last changed the maze and that it has not called
\* player_update_view on since.  `out' is a history field too: the frames
\* other than CLEAR and SHOW the thread has written since proto_recv_packet
\* last returned, each with the record it is addressed to (NULL: a
\* connection without a player).  `seen' is a history field: the records
\* that were in player_map when player_fire_laser or player_reset, if the
\* thread is inside one that has got as far as its loops over the table,
\* began the first of them.
IdleTask ==
    [pc |-> "none", player |-> NULL, this_player |-> NULL, pkt |-> NoPkt,
     target |-> " ", li |-> 0, lcur |-> NULL, victim |-> NULL,
     hret |-> "none", rsret |-> "none", stale |-> {}, out |-> << >>,
     seen |-> {}]

\* proto_send_packet of a frame of this type, addressed to record p.
Wrote(r, type, p) == [r EXCEPT !.out = Append(@, <<type, p>>)]

SetTask(t, r) == task' = [task EXCEPT ![t] = r]
Goto(t, pc) == SetTask(t, [task[t] EXCEPT !.pc = pc])

(***************************************************************************)
(* The registry test (tests/mazewar_tests.c, 05_client_registry_           *)
(* concurrency): the test body creates the workers, waits for the registry *)
(* to be empty, joins the workers and frees the registry; every worker     *)
(* registers its pipe fd and unregisters it.                               *)
(***************************************************************************)
\* pthread_create(&threads[i], NULL, client_simulation, cr)
TestSpawn(w) ==
    /\ Running
    /\ lpc = "test_spawn"
    /\ w = naccept + 1
    /\ Goto(w, "sim_start")
    /\ naccept' = naccept + 1
    /\ UNCHANGED <<cregVars, lpc, host, listening, rdshut, wfe_empty,
                   nrecv, unitVars, gameVars, ub, histVars>>

\* The loop that creates the workers is over: creg_wait_for_empty(cr) is called.
TestCallWait ==
    /\ Running
    /\ lpc = "test_spawn"
    /\ naccept = NumWorkers
    /\ lpc' = "wfe_entry"
    /\ UNCHANGED <<cregVars, host, listening, rdshut, wfe_empty, naccept,
                   task, nrecv, unitVars, gameVars, ub, histVars>>

\* client_simulation: creg_register(cr, fd)
SimRegister(w) ==
    /\ Running
    /\ task[w].pc = "sim_start"
    /\ CregRegister(w)
    /\ Goto(w, "sim_work")
    /\ UNCHANGED <<lifeVars, nrecv, unitVars, gameVars, ub>>

\* client_simulation: creg_unregister(cr, fd), close, return
SimUnregister(w) ==
    /\ Running
    /\ task[w].pc = "sim_work"
    /\ CregUnregister(w)
    /\ Goto(w, "sim_done")
    /\ UNCHANGED <<lifeVars, nrecv, unitVars, gameVars, ub>>

\* pthread_join of every worker.
TestJoin ==
    /\ Running
    /\ lpc = "test_join"
    /\ \A w \in Workers : task[w].pc = "sim_done"
    /\ lpc' = "test_fini"
    /\ UNCHANGED <<cregVars, host, listening, rdshut, wfe_empty, naccept,
                   task, nrecv, unitVars, gameVars, ub, histVars>>

\* creg_fini(cr), and the test is over.
TestFini ==
    /\ Running
    /\ lpc = "test_fini"
    /\ creg_live' = FALSE
    /\ lpc' = "exited"
    /\ UNCHANGED <<client_fds, count, empty, host, listening, rdshut,
                   wfe_empty, naccept, task, nrecv, unitVars, gameVars, ub, histVars>>

(***************************************************************************)
(* The maze (maze.c).  A cell holds EMPTY, a wall character or an avatar.  *)
(***************************************************************************)
EMPTY == " "
Letters == {"A", "B", "C", "D", "E", "F", "G", "H", "I", "J", "K", "L", "M",
            "N", "O", "P", "Q", "R", "S", "T", "U", "V", "W", "X", "Y", "Z"}
IS_EMPTY(c) == c = EMPTY
IS_AVATAR(c) == c \in Letters

\* The avatars the clients of the model log in with, in player_map order.
AVATARS == <<"A", "B", "C", "D">>
Av == {AVATARS[i] : i \in 1..NumAvatars}

NORTH == 0
WEST == 1
SOUTH == 2
EAST == 3
Directions == {NORTH, WEST, SOUTH, EAST}
REVERSE(d) == (d + 2) % 4
TURN_LEFT(d) == (d + 1) % 4
TURN_RIGHT(d) == (d + 3) % 4

drow == <<-1, 0, 1, 0>>
dcol == <<0, -1, 0, 1>>
lrow == <<0, -1, 0, 1>>
lcol == <<-1, 0, 1, 0>>

Rows == 0..(MazeRows - 1)
Cols == 0..(MazeCols - 1)
InBounds(row, col) == row \in Rows /\ col \in Cols

\* maze_set_player: rc and the grid afterwards.
maze_set_player(g, avatar, row, col) ==
    IF ~InBounds(row, col) THEN [rc |-> -1, grid |-> g]
    ELSE IF ~IS_EMPTY(g[row][col]) THEN [rc |-> -1, grid |-> g]
    ELSE [rc |-> 0, grid |-> [g EXCEPT ![row][col] = avatar]]

\* maze_remove_player: the grid afterwards.
maze_remove_player(g, avatar, row, col) ==
    IF g[row][col] = avatar THEN [g EXCEPT ![row][col] = EMPTY] ELSE g

\* maze_set_player_random draws up to 1000 cells with rand() and places the
\* avatar in the first drawn cell that maze_set_player accepts.  The draws are
\* an input: the call can succeed at any empty cell.  It fails when no draw
\* hits an empty cell; the model takes 1000 draws to hit one when there is
\* one, so the call fails when the maze has no empty cell.
maze_set_player_random(g, avatar) ==
    {[rc |-> 0, row |-> r, col |-> c, grid |-> maze_set_player(g, avatar, r, c).grid] :
        <<r, c>> \in {rc \in Rows \X Cols : IS_EMPTY(g[rc[1]][rc[2]])}}
    \cup
    (IF \A r \in Rows, c \in Cols : ~IS_EMPTY(g[r][c])
     THEN {[rc |-> -1, row |-> 0, col |-> 0, grid |-> g]} ELSE {})

\* maze_move: rc and the grid afterwards.
maze_move_always(g, row, col, dir) == [rc |-> 0, grid |-> g]
maze_move(g, row, col, dir) ==
    LET new_row == row + drow[dir + 1]
        new_col == col + dcol[dir + 1]
    IN  IF ~InBounds(row, col) \/ ~IS_AVATAR(g[row][col])
        THEN [rc |-> -1, grid |-> g]
        ELSE IF ~InBounds(new_row, new_col) \/ ~IS_EMPTY(g[new_row][new_col])
        THEN [rc |-> -1, grid |-> g]
        ELSE [rc |-> 0,
              grid |-> [g EXCEPT ![new_row][new_col] = g[row][col],
                                 ![row][col] = EMPTY]]

\* maze_find_target: the loop, one iteration per call.
RECURSIVE FindTargetFrom(_, _, _, _)
FindTargetFrom(g, row, col, dir) ==
    LET r == row + drow[dir + 1]
        c == col + dcol[dir + 1]
    IN  IF ~InBounds(r, c) THEN EMPTY
        ELSE IF ~IS_EMPTY(g[r][c])
        THEN (IF IS_AVATAR(g[r][c]) THEN g[r][c] ELSE EMPTY)
        ELSE FindTargetFrom(g, r, c, dir)

maze_find_target_here(g, row, col, dir) ==
    IF InBounds(row, col) /\ IS_AVATAR(g[row][col]) THEN g[row][col] ELSE EMPTY
maze_find_target(g, row, col, dir) ==
    IF InBounds(row, col) THEN FindTargetFrom(g, row, col, dir) ELSE EMPTY

\* maze_get_view: the rows written, each <<LEFT_WALL, CORRIDOR, RIGHT_WALL>>;
\* the value returned is their number.
ViewRow(g, r, c, gaze) ==
    LET rl == r + lrow[gaze + 1]
        cl == c + lcol[gaze + 1]
        rr == r - lrow[gaze + 1]
        cr == c - lcol[gaze + 1]
    IN  << IF InBounds(rl, cl) THEN g[rl][cl] ELSE "*",
           g[r][c],
           IF InBounds(rr, cr) THEN g[rr][cr] ELSE "*" >>

maze_get_view(g, row, col, gaze, depth) ==
    LET ok(d) == InBounds(row + d * drow[gaze + 1], col + d * dcol[gaze + 1])
        actual_depth == Cardinality({d \in 0..(depth - 1) : \A e \in 0..d : ok(e)})
    IN  [d \in 1..actual_depth |->
            ViewRow(g, row + (d - 1) * drow[gaze + 1],
                       col + (d - 1) * dcol[gaze + 1], gaze)]

(***************************************************************************)
(* The player module (player.c, listed in README.md).                      *)
(***************************************************************************)
\* The record player_login builds with calloc and its assignments.
NewPlayer(clientfd, avatar, row, col, tid) ==
    [live |-> TRUE, mutex |-> NULL, ref_count |-> 1, client_fd |-> clientfd,
     avatar |-> avatar, row |-> row, col |-> col, dir |-> NORTH, score |-> 0,
     laser_hit |-> FALSE, thread_id |-> tid, view_valid_depth |-> -1]

\* What is left of a record after player_unref has freed it.
FreedPlayer ==
    [live |-> FALSE, mutex |-> NULL, ref_count |-> 0, client_fd |-> -1,
     avatar |-> EMPTY, row |-> 0, col |-> 0, dir |-> NORTH, score |-> 0,
     laser_hit |-> FALSE, thread_id |-> 0, view_valid_depth |-> -1]

Live(p) == p \in DOMAIN rec /\ rec[p].live

\* pthread_mutex_lock(&p->mutex) returns: the recursive mutex is free or the
\* caller's own.
CanLock_never(t, p) == FALSE
CanLock(t, p) == rec[p].mutex \in {NULL, t}

\* player_ref
player_ref(rs, p) == [rs EXCEPT ![p].ref_count = @ + 1]

\* player_unref: the record is freed when the count reaches 0.
player_unref_never(rs, p) == rs
player_unref(rs, p) ==
    IF rs[p].ref_count - 1 = 0
    THEN [rs EXCEPT ![p] = FreedPlayer]
    ELSE [rs EXCEPT ![p].ref_count = @ - 1]

\* player_update_view, as far as the record goes: the depth of the view sent.
player_update_view(rs, g, p) ==
    [rs EXCEPT ![p].view_valid_depth =
        Len(maze_get_view(g, rs[p].row, rs[p].col, rs[p].dir, VIEW_DEPTH))]

\* player_invalidate_view
player_invalidate_view(rs, p) == [rs EXCEPT ![p].view_valid_depth = -1]

\* The direction player_move moves in.
move_dir(dir, sign) == IF sign = -1 THEN REVERSE(dir) ELSE dir

\* player_move: the coordinates after a successful maze_move.
moved_row(row, d) ==
    IF d = NORTH THEN row - 1 ELSE IF d = SOUTH THEN row + 1 ELSE row
moved_col(col, d) ==
    IF d = NORTH \/ d = SOUTH THEN col
    ELSE IF d = WEST THEN col - 1 ELSE IF d = EAST THEN col + 1 ELSE col

(***************************************************************************)
(* The service task (server.c, mzw_client_service) and the player          *)
(* operations it calls.                                                    *)
(***************************************************************************)
\* Thread t exists and is not suspended under the SIGHUP handler.
TaskRuns(t) == task[t].pc # "none" /\ ~(host = t /\ lpc # "accept")

\* The records player_map points to.
Table(map) == {map[a] : a \in Av} \ {NULL}

\* What a step of the game leaves alone.
restVars == <<cregVars, lifeVars, nrecv, unitVars, maze_live, ub, histVars>>

\* The program counters inside a player operation.
OpPcs == {"ready", "ready_w", "rs_remove", "rs_place", "rs_others", "rs_scores",
          "rs_views", "mv_views", "own_view", "fire_get", "fire_tag",
          "fire_kill", "fire_score", "fire_scores", "fire_unref", "chat",
          "hit_remove", "hit_views", "hit_alert", "purgatory",
          "lo_map", "lo_maze", "lo_unref"}

\* The loops over player_map, and what each does with an entry.
LoopPcs == {"rs_others", "rs_scores", "rs_views", "mv_views", "hit_views",
            "fire_scores", "chat"}
ViewLoops == {"rs_views", "mv_views", "hit_views"}

StartLoop(r, pc) == [r EXCEPT !.pc = pc, !.li = 1, !.lcur = NULL]

\* The statement after the loop.
LoopExit(r) ==
    IF r.pc = "mv_views" \/ r.pc = "chat" THEN [r EXCEPT !.pc = "top", !.li = 0, !.lcur = NULL]
    ELSE IF r.pc = "hit_views" THEN [r EXCEPT !.pc = "hit_alert", !.li = 0, !.lcur = NULL]
    ELSE IF r.pc = "rs_others" THEN StartLoop(r, "rs_scores")
    ELSE IF r.pc = "rs_scores" THEN StartLoop(r, "rs_views")
    ELSE IF r.pc = "rs_views"
    THEN [r EXCEPT !.pc = r.rsret, !.li = 0, !.lcur = NULL, !.seen = {}]
    ELSE [r EXCEPT !.pc = "fire_unref", !.li = 0, !.lcur = NULL]

\* i++ and the loop condition.
LoopAdvance(r) ==
    IF r.li < NumAvatars THEN [r EXCEPT !.li = @ + 1, !.lcur = NULL]
    ELSE LoopExit(r)

\* int logged_in: set to 1 with the player that player_login has returned,
\* and never reset.
logged_in_always(r) == TRUE
logged_in(r) == r.player # NULL

\* The top of the service loop: if (this_player) guards the call of
\* player_check_for_laser_hit; without a player recv is next.
AtTop(r) == [r EXCEPT !.pc = IF r.this_player = NULL THEN "recv" ELSE "top"]

\* After proto_recv_packet the same test guards the second call.
AfterRecv(r) == [r EXCEPT !.pc = IF r.this_player = NULL THEN "dispatch" ELSE "post"]

\* pthread_create(&tid, NULL, mzw_client_service, clientfd) after accept(),
\* which returns the lowest descriptor that is not open.
Accept(t) ==
    /\ Running
    /\ listening
    /\ lpc = "accept" \/ host # 0
    /\ naccept < MaxAccepts
    /\ task[t].pc = "none"
    /\ \A s \in Tasks : s < t => task[s].pc # "none"
    /\ SetTask(t, [IdleTask EXCEPT !.pc = "start"])
    /\ naccept' = naccept + 1
    /\ rdshut' = rdshut \ {t}
    /\ UNCHANGED <<cregVars, lpc, host, listening, wfe_empty, nrecv, unitVars, gameVars,
                   ub, histVars>>

\* creg_register(client_registry, client_fd)
SvcRegister(t) ==
    /\ Running /\ TaskRuns(t)
    /\ task[t].pc = "start"
    /\ IF ~creg_live THEN Halt("registry_freed")
       ELSE /\ CregRegister(t)
            /\ Goto(t, "recv")
            /\ UNCHANGED <<lifeVars, nrecv, unitVars, gameVars, ub>>

\* player_check_for_laser_hit(this_player), step 1: the flag is read and
\* cleared under the player's lock.
CheckHit(t) ==
    LET p == task[t].this_player
        next == IF task[t].pc = "top" THEN "recv" ELSE "dispatch"
    IN  /\ Running /\ TaskRuns(t)
        /\ task[t].pc \in {"top", "post"}
        /\ IF ~Live(p) THEN Halt("use_after_free")
           ELSE /\ CanLock(t, p)
                /\ IF rec[p].laser_hit
                   THEN /\ rec' = [rec EXCEPT ![p].laser_hit = FALSE]
                        /\ SetTask(t, [task[t] EXCEPT !.pc = "hit_remove",
                                          !.hret = next, !.stale = {}])
                   ELSE /\ Goto(t, next)
                        /\ UNCHANGED rec
                /\ UNCHANGED <<restVars, player_map, maze>>

\* player_check_for_laser_hit, step 2: the snapshot of row and col under the
\* lock, and maze_remove_player.
HitRemove(t) ==
    LET p == task[t].this_player IN
    /\ Running /\ TaskRuns(t)
    /\ task[t].pc = "hit_remove"
    /\ IF ~Live(p) THEN Halt("use_after_free")
       ELSE IF ~maze_live THEN Halt("maze_freed")
       ELSE /\ CanLock(t, p)
            /\ maze' = maze_remove_player(maze, rec[p].avatar, rec[p].row, rec[p].col)
            /\ SetTask(t, [StartLoop(task[t], "hit_views") EXCEPT
                              !.stale = IF maze' # maze THEN Table(player_map) ELSE {}])
            /\ UNCHANGED <<restVars, player_map, rec>>

\* player_check_for_laser_hit, step 4: ALERT to the player; sleep(3) follows.
HitAlert(t) ==
    LET p == task[t].this_player IN
    /\ Running /\ TaskRuns(t)
    /\ task[t].pc = "hit_alert"
    /\ IF ~Live(p) THEN Halt("use_after_free")
       ELSE /\ CanLock(t, p)
            /\ SetTask(t, [Wrote(task[t], "ALERT", p) EXCEPT
                              !.pc = "purgatory", !.rsret = task[t].hret])
            /\ UNCHANGED <<restVars, gameVars>>

\* player_reset, steps 1: lock, maze_remove_player at the old position.  It
\* is called after a successful login and after the sleep of hit processing.
ResetRemove(t) ==
    LET p == IF task[t].pc = "purgatory" THEN task[t].this_player ELSE task[t].player IN
    /\ Running /\ TaskRuns(t)
    /\ task[t].pc \in {"rs_remove", "purgatory"}
    /\ IF ~Live(p) THEN Halt("use_after_free")
       ELSE IF ~maze_live THEN Halt("maze_freed")
       ELSE /\ CanLock(t, p)
            /\ rec' = [rec EXCEPT ![p].mutex = t]
            /\ maze' = maze_remove_player(maze, rec[p].avatar, rec[p].row, rec[p].col)
            /\ SetTask(t, [task[t] EXCEPT !.pc = "rs_place",
                              !.stale = IF maze' # maze THEN Table(player_map) ELSE @])
            /\ UNCHANGED <<restVars, player_map>>

\* player_reset, steps 2 and 3: maze_set_player_random, score = 0, unlock;
\* on failure unlock and return.
ResetPlace(t) ==
    LET p == task[t].this_player IN
    /\ Running /\ TaskRuns(t)
    /\ task[t].pc = "rs_place"
    /\ IF ~Live(p) THEN Halt("use_after_free")
       ELSE IF ~maze_live THEN Halt("maze_freed")
       ELSE \E res \in maze_set_player_random(maze, rec[p].avatar) :
            /\ maze' = res.grid
            /\ IF res.rc = 0
               THEN /\ rec' = [rec EXCEPT ![p].row = res.row, ![p].col = res.col,
                                          ![p].score = 0, ![p].mutex = NULL]
                    /\ SetTask(t, [StartLoop(task[t], "rs_others") EXCEPT
                                      !.stale = Table(player_map),
                                      !.seen = Table(player_map)])
               ELSE /\ rec' = [rec EXCEPT ![p].mutex = NULL]
                    /\ Goto(t, task[t].rsret)
            /\ UNCHANGED <<restVars, player_map>>

\* The test of a loop over player_map: if (player_map[i]) (and, in step 4
\* of player_reset, && player_map[i] != player).
LoopTest(t) ==
    LET r == task[t]
        e == player_map[AVATARS[r.li]]
        pass == e # NULL /\ (r.pc = "rs_others" => e # r.this_player)
    IN  /\ Running /\ TaskRuns(t)
        /\ r.pc \in LoopPcs
        /\ r.lcur = NULL
        /\ SetTask(t, IF pass THEN [r EXCEPT !.lcur = e] ELSE LoopAdvance(r))
        /\ UNCHANGED <<restVars, gameVars>>

\* The body of a loop over player_map.  The entry is read again (the C
\* expression names player_map[i] a second time), or the compiler reuses the
\* pointer the test has read.  No lock and no reference protects the record
\* between the test and the body.
LoopBody(t) ==
    LET r == task[t] IN
    /\ Running /\ TaskRuns(t)
    /\ r.pc \in LoopPcs
    /\ r.lcur # NULL
    /\ \E q \in {r.lcur, player_map[AVATARS[r.li]]} :
           IF q = NULL THEN Halt("null_deref")
           ELSE IF ~Live(q) THEN Halt("use_after_free")
           ELSE IF r.pc \in ViewLoops
           THEN \* player_update_view(player_map[i])
                IF ~maze_live THEN Halt("maze_freed")
                ELSE /\ CanLock(t, q)
                     /\ rec' = player_update_view(rec, maze, q)
                     /\ SetTask(t, [LoopAdvance(r) EXCEPT !.stale = r.stale \ {q}])
                     /\ UNCHANGED <<restVars, player_map, maze>>
           ELSE IF r.pc = "rs_others"
           THEN \* reads player_map[i]->avatar and ->score, sends to player
                IF ~Live(r.this_player) THEN Halt("use_after_free")
                ELSE /\ CanLock(t, r.this_player)
                     /\ SetTask(t, LoopAdvance(Wrote(r, "SCORE", r.this_player)))
                     /\ UNCHANGED <<restVars, gameVars>>
           ELSE \* player_send_packet(player_map[i], &pkt, ...)
                /\ CanLock(t, q)
                /\ SetTask(t, LoopAdvance(Wrote(r, IF r.pc = "chat" THEN "CHAT"
                                                    ELSE "SCORE", q)))
                /\ UNCHANGED <<restVars, gameVars>>

\* proto_recv_packet returns a frame of the client.
RecvFrame(t, f) ==
    /\ Running /\ TaskRuns(t)
    /\ task[t].pc = "recv"
    /\ t \notin rdshut
    /\ nrecv < MaxFrames
    /\ SetTask(t, AfterRecv([task[t] EXCEPT !.pkt = f, !.out = << >>]))
    /\ nrecv' = nrecv + 1
    /\ UNCHANGED <<cregVars, lifeVars, gameVars, ub, histVars, unitVars>>

\* The first statement of the cleanup: if (player != NULL) player_logout.
Cleanup(r) ==
    IF r.player # NULL
    THEN [r EXCEPT !.pc = "lo_map", !.stale = {}, !.out = << >>]
    ELSE [r EXCEPT !.pc = "unreg", !.out = << >>]

\* proto_recv_packet < 0: the client has closed the connection.
RecvEof(t) ==
    /\ Running /\ TaskRuns(t)
    /\ task[t].pc = "recv"
    /\ t \notin rdshut
    /\ SetTask(t, Cleanup(task[t]))
    /\ UNCHANGED <<restVars, gameVars>>

\* proto_recv_packet < 0: creg_shutdown_all has shut the read side down.
RecvShutdown(t) ==
    /\ Running /\ TaskRuns(t)
    /\ task[t].pc = "recv"
    /\ t \in rdshut
    /\ SetTask(t, Cleanup(task[t]))
    /\ UNCHANGED <<restVars, gameVars>>

\* if (player_map[avatar]) at the head of player_login.
avatar_in_use_never(map, avatar) == FALSE
avatar_in_use(map, avatar) == map[avatar] # NULL

\* case MZW_LOGIN_PKT: player_login(client_fd, avatar, username), one
\* critical section of map_mutex, and this_player = player.  Without a player
\* INUSE is written to the connection, which no other thread writes to, and
\* the case is left; with one, the READY reply is next.
Login(t) ==
    LET avatar == AVATARS[task[t].pkt[2]] IN
    /\ Running /\ TaskRuns(t)
    /\ task[t].pc = "dispatch"
    /\ task[t].pkt[1] = "LOGIN"
    /\ ~logged_in(task[t])
    /\ IF avatar_in_use(player_map, avatar)
       THEN /\ SetTask(t, AtTop(Wrote([task[t] EXCEPT !.pkt = NoPkt], "INUSE", NULL)))
            /\ UNCHANGED <<restVars, gameVars>>
       ELSE IF ~maze_live THEN Halt("maze_freed")
       ELSE \E res \in maze_set_player_random(maze, avatar) :
            /\ maze' = res.grid
            /\ IF res.rc = 0
               THEN /\ rec' = Append(rec, NewPlayer(t, avatar, res.row, res.col, t))
                    /\ player_map' = [player_map EXCEPT ![avatar] = Len(rec) + 1]
                    /\ SetTask(t, [task[t] EXCEPT !.pc = "ready", !.pkt = NoPkt,
                                      !.rsret = "top",
                                      !.player = Len(rec) + 1,
                                      !.this_player = Len(rec) + 1,
                                      !.stale = Table(player_map')])
               ELSE /\ SetTask(t, AtTop(Wrote([task[t] EXCEPT !.pkt = NoPkt],
                                               "INUSE", NULL)))
                    /\ UNCHANGED <<rec, player_map>>
            /\ UNCHANGED restVars

\* logged_in = 1 and proto_send_packet(client_fd, &response, NULL) with the
\* READY reply: it writes to the connection of the player that player_login
\* has put in the table, without the lock of the record.  This step enters
\* write_all; the write is under way until ReadySent.
Ready(t) ==
    /\ Running /\ TaskRuns(t)
    /\ task[t].pc = "ready"
    /\ Goto(t, "ready_w")
    /\ UNCHANGED <<restVars, gameVars>>

\* write_all of the READY reply returns: the frame is on the connection.
\* player_reset(player) is next.
ReadySent(t) ==
    /\ Running /\ TaskRuns(t)
    /\ task[t].pc = "ready_w"
    /\ SetTask(t, [Wrote(task[t], "READY", task[t].player) EXCEPT !.pc = "rs_remove"])
    /\ UNCHANGED <<restVars, gameVars>>

\* The frames that change nothing: a LOGIN when logged in, a command when
\* not logged in, a SEND without payload, an unknown type.
Ignored(t) ==
    LET type == task[t].pkt[1] IN
    /\ Running /\ TaskRuns(t)
    /\ task[t].pc = "dispatch"
    /\ \/ type = "LOGIN" /\ logged_in(task[t])
       \/ type \in {"MOVE", "TURN", "FIRE", "REFRESH", "SEND"} /\ ~logged_in(task[t])
       \/ type = "SEND" /\ task[t].pkt[2] = 0
       \/ type = "OTHER"
    /\ SetTask(t, AtTop([task[t] EXCEPT !.pkt = NoPkt]))
    /\ UNCHANGED <<restVars, gameVars>>

\* case MZW_MOVE_PKT: player_move(player, pkt.param1), the locked part.
Move(t) ==
    LET p == task[t].player
        d == move_dir(rec[p].dir, task[t].pkt[2])
        res == maze_move(maze, rec[p].row, rec[p].col, d)
    IN  /\ Running /\ TaskRuns(t)
        /\ task[t].pc = "dispatch"
        /\ task[t].pkt[1] = "MOVE"
        /\ logged_in(task[t])
        /\ IF ~Live(p) THEN Halt("use_after_free")
           ELSE IF ~maze_live THEN Halt("maze_freed")
           ELSE /\ CanLock(t, p)
                /\ maze' = res.grid
                /\ rec' = IF res.rc = 0
                          THEN [rec EXCEPT ![p].row = moved_row(@, d),
                                           ![p].col = moved_col(@, d)]
                          ELSE rec
                /\ SetTask(t, [StartLoop(task[t], "mv_views") EXCEPT !.pkt = NoPkt,
                                  !.stale = IF res.rc = 0 THEN Table(player_map) ELSE {}])
                /\ UNCHANGED <<restVars, player_map>>

\* case MZW_TURN_PKT: player_rotate(player, pkt.param1), the locked part.
Turn(t) ==
    LET p == task[t].player IN
    /\ Running /\ TaskRuns(t)
    /\ task[t].pc = "dispatch"
    /\ task[t].pkt[1] = "TURN"
    /\ logged_in(task[t])
    /\ IF ~Live(p) THEN Halt("use_after_free")
       ELSE /\ CanLock(t, p)
            /\ rec' = player_invalidate_view(
                          [rec EXCEPT ![p].dir = IF task[t].pkt[2] = 1
                                                 THEN TURN_LEFT(@) ELSE TURN_RIGHT(@)], p)
            /\ SetTask(t, [task[t] EXCEPT !.pc = "own_view", !.pkt = NoPkt,
                              !.stale = {}])
            /\ UNCHANGED <<restVars, player_map, maze>>

\* case MZW_REFRESH_PKT: player_invalidate_view(player), without the lock.
Refresh(t) ==
    LET p == task[t].player IN
    /\ Running /\ TaskRuns(t)
    /\ task[t].pc = "dispatch"
    /\ task[t].pkt[1] = "REFRESH"
    /\ logged_in(task[t])
    /\ IF ~Live(p) THEN Halt("use_after_free")
       ELSE /\ rec' = player_invalidate_view(rec, p)
            /\ SetTask(t, [task[t] EXCEPT !.pc = "own_view", !.pkt = NoPkt,
                              !.stale = {}])
            /\ UNCHANGED <<restVars, player_map, maze>>

\* player_update_view(player) at the end of player_rotate and of REFRESH.
OwnView(t) ==
    LET p == task[t].player IN
    /\ Running /\ TaskRuns(t)
    /\ task[t].pc = "own_view"
    /\ IF ~Live(p) THEN Halt("use_after_free")
       ELSE IF ~maze_live THEN Halt("maze_freed")
       ELSE /\ CanLock(t, p)
            /\ rec' = player_update_view(rec, maze, p)
            /\ SetTask(t, [task[t] EXCEPT !.pc = "top", !.stale = @ \ {p}])
            /\ UNCHANGED <<restVars, player_map, maze>>

\* case MZW_FIRE_PKT: player_fire_laser(player), maze_find_target under the
\* shooter's lock.
Fire(t) ==
    LET p == task[t].player
        target == maze_find_target(maze, rec[p].row, rec[p].col, rec[p].dir)
    IN  /\ Running /\ TaskRuns(t)
        /\ task[t].pc = "dispatch"
        /\ task[t].pkt[1] = "FIRE"
        /\ logged_in(task[t])
        /\ IF ~Live(p) THEN Halt("use_after_free")
           ELSE IF ~maze_live THEN Halt("maze_freed")
           ELSE /\ CanLock(t, p)
                /\ SetTask(t, IF IS_AVATAR(target)
                              THEN [task[t] EXCEPT !.pc = "fire_get", !.pkt = NoPkt,
                                        !.target = target, !.stale = {}]
                              ELSE [task[t] EXCEPT !.pc = "top", !.pkt = NoPkt])
                /\ UNCHANGED <<restVars, gameVars>>

\* victim = player_get(target): the entry is read and referenced under
\* map_mutex.
FireGet(t) ==
    LET q == player_map[task[t].target] IN
    /\ Running /\ TaskRuns(t)
    /\ task[t].pc = "fire_get"
    /\ IF q = NULL
       THEN /\ SetTask(t, [task[t] EXCEPT !.pc = "top", !.target = EMPTY])
            /\ UNCHANGED <<restVars, gameVars>>
       ELSE IF ~Live(q) THEN Halt("use_after_free")
       ELSE /\ CanLock(t, q)
            /\ rec' = player_ref(rec, q)
            /\ SetTask(t, [task[t] EXCEPT !.pc = "fire_tag", !.target = EMPTY,
                              !.victim = q])
            /\ UNCHANGED <<restVars, player_map, maze>>

\* victim->laser_hit = 1 under the victim's lock.
FireTag(t) ==
    LET q == task[t].victim IN
    /\ Running /\ TaskRuns(t)
    /\ task[t].pc = "fire_tag"
    /\ IF ~Live(q) THEN Halt("use_after_free")
       ELSE /\ CanLock(t, q)
            /\ rec' = [rec EXCEPT ![q].laser_hit = TRUE]
            /\ Goto(t, "fire_kill")
            /\ UNCHANGED <<restVars, player_map, maze>>

\* pthread_kill(victim->thread_id, SIGUSR1) and handle_sigusr1 in the thread
\* that has this id: it sets this_player->laser_hit without a lock.  A read()
\* the signal interrupts is retried by read_all: the thread stays in recv.
FireKill(t) ==
    LET q == task[t].victim
        tid == rec[q].thread_id
        tp == task[tid].this_player
    IN  /\ Running /\ TaskRuns(t)
        /\ task[t].pc = "fire_kill"
        /\ IF ~Live(q) THEN Halt("use_after_free")
           ELSE IF task[tid].pc = "none" THEN Halt("kill_exited_thread")
           ELSE IF tp # NULL /\ ~Live(tp) THEN Halt("use_after_free")
           ELSE /\ rec' = IF tp = NULL THEN rec
                          ELSE [rec EXCEPT ![tp].laser_hit = TRUE]
                /\ Goto(t, "fire_score")
                /\ UNCHANGED <<restVars, player_map, maze>>

\* player->score++ under the shooter's lock.
FireScore(t) ==
    LET p == task[t].player IN
    /\ Running /\ TaskRuns(t)
    /\ task[t].pc = "fire_score"
    /\ IF ~Live(p) THEN Halt("use_after_free")
       ELSE /\ CanLock(t, p)
            /\ rec' = [rec EXCEPT ![p].score = @ + 1]
            /\ SetTask(t, [StartLoop(task[t], "fire_scores") EXCEPT
                              !.seen = Table(player_map)])
            /\ UNCHANGED <<restVars, player_map, maze>>

\* player_unref(victim, "fire_laser")
FireUnref(t) ==
    LET q == task[t].victim IN
    /\ Running /\ TaskRuns(t)
    /\ task[t].pc = "fire_unref"
    /\ IF ~Live(q) THEN Halt("use_after_free")
       ELSE /\ CanLock(t, q)
            /\ rec' = player_unref(rec, q)
            /\ SetTask(t, [task[t] EXCEPT !.pc = "top", !.victim = NULL, !.seen = {}])
            /\ UNCHANGED <<restVars, player_map, maze>>

\* case MZW_SEND_PKT with a payload: player_send_chat reads the sender's name
\* and avatar and starts its loop.
Send(t) ==
    LET p == task[t].player IN
    /\ Running /\ TaskRuns(t)
    /\ task[t].pc = "dispatch"
    /\ task[t].pkt[1] = "SEND"
    /\ task[t].pkt[2] # 0
    /\ logged_in(task[t])
    /\ IF ~Live(p) THEN Halt("use_after_free")
       ELSE /\ SetTask(t, [StartLoop(task[t], "chat") EXCEPT !.pkt = NoPkt,
                              !.stale = {}])
            /\ UNCHANGED <<restVars, gameVars>>

\* player_logout: the table entry is cleared under map_mutex.
LogoutMap(t) ==
    LET p == task[t].player IN
    /\ Running /\ TaskRuns(t)
    /\ task[t].pc = "lo_map"
    /\ IF ~Live(p) THEN Halt("use_after_free")
       ELSE /\ player_map' = IF player_map[rec[p].avatar] = p
                             THEN [player_map EXCEPT ![rec[p].avatar] = NULL]
                             ELSE player_map
            /\ Goto(t, "lo_maze")
            /\ UNCHANGED <<restVars, rec, maze>>

\* player_logout: maze_remove_player(player->avatar, player->row, player->col)
LogoutMaze(t) ==
    LET p == task[t].player IN
    /\ Running /\ TaskRuns(t)
    /\ task[t].pc = "lo_maze"
    /\ IF ~Live(p) THEN Halt("use_after_free")
       ELSE IF ~maze_live THEN Halt("maze_freed")
       ELSE /\ maze' = maze_remove_player(maze, rec[p].avatar, rec[p].row, rec[p].col)
            /\ SetTask(t, [task[t] EXCEPT !.pc = "lo_unref",
                              !.stale = IF maze' # maze THEN Table(player_map) ELSE {}])
            /\ UNCHANGED <<restVars, player_map, rec>>

\* player_logout: SCORE -1 to the leaving player, player_unref(player, "logout")
LogoutUnref(t) ==
    LET p == task[t].player IN
    /\ Running /\ TaskRuns(t)
    /\ task[t].pc = "lo_unref"
    /\ IF ~Live(p) THEN Halt("use_after_free")
       ELSE /\ CanLock(t, p)
            /\ rec' = player_unref(rec, p)
            /\ SetTask(t, [Wrote(task[t], "SCORE", p) EXCEPT !.pc = "unreg"])
            /\ UNCHANGED <<restVars, player_map, maze>>

\* creg_unregister(client_registry, client_fd); close(client_fd);
\* return NULL: the thread is gone.
SvcUnregister(t) ==
    /\ Running /\ TaskRuns(t)
    /\ task[t].pc = "unreg"
    /\ IF ~creg_live THEN Halt("registry_freed")
       ELSE /\ CregUnregister(t)
            /\ SetTask(t, IdleTask)
            /\ UNCHANGED <<lifeVars, nrecv, unitVars, gameVars, ub>>

(***************************************************************************)
(* The server lifecycle (main.c): SIGHUP and terminate().                  *)
(***************************************************************************)
\* SIGHUP is delivered to thread h (0: the main thread), which runs
\* handle_sighup on top of whatever it was doing.
Sighup(h) ==
    /\ Running
    /\ lpc = "accept"
    /\ IF h = 0 THEN TRUE ELSE task[h].pc # "none"
    /\ host' = h
    /\ lpc' = "close_listen"
    /\ UNCHANGED <<cregVars, listening, rdshut, wfe_empty, naccept, task,
                   nrecv, unitVars, gameVars, ub, histVars>>

\* terminate: close(listenfd)
TermCloseListen ==
    /\ Running
    /\ lpc = "close_listen"
    /\ listening' = FALSE
    /\ lpc' = "shutdown_all"
    /\ UNCHANGED <<cregVars, host, rdshut, wfe_empty, naccept, task, nrecv, unitVars,
                   gameVars, ub, histVars>>

\* terminate: creg_shutdown_all(client_registry); creg_wait_for_empty is next.
TermShutdownAll ==
    /\ Running
    /\ lpc = "shutdown_all"
    /\ rdshut' = rdshut \cup creg_shutdown_all_fds(client_fds)
    /\ lpc' = "wfe_entry"
    /\ UNCHANGED <<cregVars, host, listening, wfe_empty, naccept, task, nrecv, unitVars,
                   gameVars, ub, histVars>>

\* terminate: creg_fini(client_registry)
TermCregFini ==
    /\ Running
    /\ lpc = "creg_fini"
    /\ creg_live' = FALSE
    /\ lpc' = "player_fini"
    /\ UNCHANGED <<client_fds, count, empty, host, listening, rdshut,
                   wfe_empty, naccept, task, nrecv, unitVars, gameVars, ub, histVars>>

\* player_fini: every entry of player_map is unreferenced under map_mutex;
\* the entries stay in the table.
player_fini(rs, map) ==
    [p \in DOMAIN rs |->
        IF \E a \in Av : map[a] = p THEN player_unref(rs, p)[p] ELSE rs[p]]

\* terminate: player_fini()
TermPlayerFini ==
    LET entries == {player_map[a] : a \in Av} \ {NULL} IN
    /\ Running
    /\ lpc = "player_fini"
    /\ IF \E p \in entries : ~Live(p) THEN Halt("use_after_free")
       ELSE /\ \A p \in entries : CanLock(host, p)
            /\ rec' = player_fini(rec, player_map)
            /\ lpc' = "maze_fini"
            /\ UNCHANGED <<cregVars, host, listening, rdshut, wfe_empty, naccept,
                           task, nrecv, unitVars, player_map, maze, maze_live, ub, histVars>>

\* terminate: maze_fini()
TermMazeFini ==
    /\ Running
    /\ lpc = "maze_fini"
    /\ maze_live' = FALSE
    /\ lpc' = "exit"
    /\ UNCHANGED <<cregVars, host, listening, rdshut, wfe_empty, naccept,
                   task, nrecv, unitVars, player_map, rec, maze, ub, histVars>>

\* terminate: exit(status); the process and all its threads are gone.
TermExit ==
    /\ Running
    /\ lpc = "exit"
    /\ lpc' = "exited"
    /\ UNCHANGED <<cregVars, host, listening, rdshut, wfe_empty, naccept,
                   task, nrecv, unitVars, gameVars, ub, histVars>>

(***************************************************************************)
(* The codec (protocol.c), on one connection: proto_send_packet writes a   *)
(* frame at one end and proto_recv_packet reads it at the other.  A byte   *)
(* is a number in 0..255; `le' says that the host is little-endian.  A     *)
(* uint32_t is the pair of its high and low 16 bits: the numbers of the    *)
(* model checker have 31 bits.                                             *)
(***************************************************************************)
\* sizeof(MZW_PACKET): type, param1, param2, param3, size, two bytes of
\* padding, timestamp_sec, timestamp_nsec.
HeaderSize == 16

\* The null pointer where a buffer of bytes is expected.
NoData == << -1 >>

Reverse(b) == [i \in 1..Len(b) |-> b[Len(b) + 1 - i]]
BigEndian16(v) == <<v \div 256, v % 256>>
BigEndian32(v) == BigEndian16(v[1]) \o BigEndian16(v[2])
Value(b) == IF Len(b) = 2 THEN 256 * b[1] + b[2]
            ELSE <<256 * b[1] + b[2], 256 * b[3] + b[4]>>

\* A uint16_t and a uint32_t in the memory of the host, lowest address
\* first, and the number that bytes in the memory of the host are.
Mem16(v, le) == IF le THEN Reverse(BigEndian16(v)) ELSE BigEndian16(v)
Mem32(v, le) == IF le THEN Reverse(BigEndian32(v)) ELSE BigEndian32(v)
Val(b, le) == IF le THEN Value(Reverse(b)) ELSE Value(b)

\* htons, htonl, ntohs, ntohl: the bytes are swapped on a little-endian host.
htons_none(v, le) == v
htons(v, le) == IF le THEN Value(Reverse(BigEndian16(v))) ELSE v
htonl(v, le) == IF le THEN Value(Reverse(BigEndian32(v))) ELSE v
ntohs(v, le) == IF le THEN Value(Reverse(BigEndian16(v))) ELSE v
ntohl(v, le) == IF le THEN Value(Reverse(BigEndian32(v))) ELSE v

\* The bytes of an MZW_PACKET in the memory of the host, and the MZW_PACKET
\* that 16 bytes in the memory of the host are.
PacketBytes(pkt, le) ==
    <<pkt.type, pkt.param1, pkt.param2, pkt.param3>> \o Mem16(pkt.size, le)
        \o pkt.pad \o Mem32(pkt.timestamp_sec, le) \o Mem32(pkt.timestamp_nsec, le)

PacketAt(b, le) ==
    [type |-> b[1], param1 |-> b[2], param2 |-> b[3], param3 |-> b[4],
     size |-> Val(SubSeq(b, 5, 6), le), pad |-> SubSeq(b, 7, 8),
     timestamp_sec |-> Val(SubSeq(b, 9, 12), le),
     timestamp_nsec |-> Val(SubSeq(b, 13, 16), le)]

\* proto_send_packet: the caller's header with the reading of the clock, and
\* the copy in network byte order that is written.
stamp(pkt, clock) ==
    [pkt EXCEPT !.timestamp_sec = clock[1], !.timestamp_nsec = clock[2]]

send_header(pkt, le) ==
    PacketBytes([pkt EXCEPT !.size = htons(@, le),
                            !.timestamp_sec = htonl(@, le),
                            !.timestamp_nsec = htonl(@, le)], le)

\* proto_recv_packet: the header in host byte order from the bytes read.
recv_header(b, le) ==
    LET net_pkt == PacketAt(b, le) IN
    [type |-> net_pkt.type, param1 |-> net_pkt.param1, param2 |-> net_pkt.param2,
     param3 |-> net_pkt.param3, size |-> ntohs(net_pkt.size, le),
     timestamp_sec |-> ntohl(net_pkt.timestamp_sec, le),
     timestamp_nsec |-> ntohl(net_pkt.timestamp_nsec, le)]

\* read_all: read() < 0 with this errno is retried.
read_all_retry_never(errno) == FALSE
read_all_retry(errno) == errno = "EINTR"

\* clock_gettime has read the clock; the header is to be written.
SendStamp(clock) ==
    /\ snd.pc = "call"
    /\ snd' = [snd EXCEPT !.pc = "header", !.pkt = stamp(px.pkt, clock),
                          !.buf = send_header(stamp(px.pkt, clock), px.le)]
    /\ UNCHANGED <<serverVars, px, net, rcv, call>>

\* write_all: write() returns n > 0.  After the header the payload is
\* written if (pkt->size > 0 && data != NULL).
WriteAll(n) ==
    LET rest == SubSeq(snd.buf, n + 1, Len(snd.buf)) IN
    /\ snd.pc \in {"header", "payload"}
    /\ n \in 1..Len(snd.buf)
    /\ net' = net \o SubSeq(snd.buf, 1, n)
    /\ snd' = [snd EXCEPT
                 !.sent = @ \o SubSeq(snd.buf, 1, n),
                 !.short = @ \/ n < Len(snd.buf),
                 !.buf = IF rest # << >> THEN rest
                         ELSE IF snd.pc = "header" /\ snd.pkt.size > 0 /\ px.data # NoData
                         THEN SubSeq(px.data, 1, snd.pkt.size)
                         ELSE << >>,
                 !.pc = IF rest # << >> THEN @
                        ELSE IF snd.pc = "header" /\ snd.pkt.size > 0 /\ px.data # NoData
                        THEN "payload"
                        ELSE "done"]
    /\ UNCHANGED <<serverVars, px, rcv, call>>

\* write_all: write() returns n <= 0; proto_send_packet returns -1 and the
\* connection is closed.
WriteAllFail ==
    /\ snd.pc \in {"header", "payload"}
    /\ snd' = [snd EXCEPT !.pc = "error", !.buf = << >>]
    /\ UNCHANGED <<serverVars, px, net, rcv, call>>

\* read_all: read() returns n > 0 bytes of those that have arrived.  With
\* the last byte of the header the fields are converted and, if
\* (pkt->size > 0), the buffer of the payload is allocated; with the last
\* byte of the payload proto_recv_packet returns 0.
ReadAll(n) ==
    LET buf == rcv.buf \o SubSeq(net, 1, n)
        pkt == recv_header(buf, px.le)
    IN  /\ rcv.pc \in {"header", "payload"}
        /\ n \in 1..rcv.count
        /\ n <= Len(net)
        /\ net' = SubSeq(net, n + 1, Len(net))
        /\ rcv' = IF n < rcv.count
                  THEN [rcv EXCEPT !.buf = buf, !.count = @ - n, !.short = TRUE]
                  ELSE IF rcv.pc = "payload"
                  THEN [rcv EXCEPT !.pc = "done", !.buf = << >>, !.count = 0, !.data = buf]
                  ELSE IF pkt.size > 0
                  THEN [rcv EXCEPT !.pc = "payload", !.net_pkt = buf, !.pkt = pkt,
                                   !.buf = << >>, !.count = pkt.size]
                  ELSE [rcv EXCEPT !.pc = "done", !.net_pkt = buf, !.pkt = pkt,
                                   !.buf = << >>, !.count = 0, !.data = NoData]
        /\ UNCHANGED <<serverVars, px, snd, call>>

\* read_all: read() returns -1 with this errno: a signal has interrupted
\* it (EINTR) or the connection has failed.  The loop goes on with ptr and
\* count as they are, or read_all and proto_recv_packet return -1.
ReadAllErrno(errno) ==
    /\ rcv.pc \in {"header", "payload"}
    /\ errno = "EINTR" => rcv.nintr < MaxIntr
    /\ rcv' = IF read_all_retry(errno)
              THEN [rcv EXCEPT !.nintr = @ + 1]
              ELSE [rcv EXCEPT !.pc = "error", !.errno = errno]
    /\ UNCHANGED <<serverVars, px, snd, net, call>>

\* read_all: read() returns 0, the sender has closed the connection and
\* every byte written has been read.
ReadAllEof ==
    /\ rcv.pc \in {"header", "payload"}
    /\ net = << >>
    /\ snd.pc \in {"done", "error"}
    /\ rcv' = [rcv EXCEPT !.pc = "error", !.errno = "EOF"]
    /\ UNCHANGED <<serverVars, px, snd, net, call>>

(***************************************************************************)
(* Initial states and specifications.                                      *)
(***************************************************************************)
\* maze_init with a template of MazeRows lines of MazeCols blanks.
maze_init == [r \in Rows |-> [c \in Cols |-> EMPTY]]

InitCommon ==
    /\ client_fds = << >>
    /\ count = 0
    /\ empty = 0
    /\ creg_live = TRUE
    /\ rdshut = {}
    /\ wfe_empty = FALSE
    /\ naccept = 0
    /\ task = [t \in Threads |-> IdleTask]
    /\ nrecv = 0
    /\ player_map = [a \in Av |-> NULL]
    /\ rec = << >>
    /\ maze = maze_init
    /\ maze_live = TRUE
    /\ ub = "none"
    /\ drained = FALSE
    /\ spurious = FALSE

\* No codec run and no call taken on its own.
NoUnit ==
    /\ px = NULL
    /\ snd = NULL
    /\ net = << >>
    /\ rcv = NULL
    /\ call = NULL

\* The registry test.
InitTest ==
    /\ InitCommon
    /\ NoUnit
    /\ lpc = "test_spawn"
    /\ host = -1
    /\ listening = FALSE

NextTest ==
    \/ \E w \in Workers : TestSpawn(w)
    \/ TestCallWait
    \/ \E w \in Workers : SimRegister(w)
    \/ \E w \in Workers : SimUnregister(w)
    \/ WfeCheck
    \/ WfeSemWait
    \/ TestJoin
    \/ TestFini

SpecTest == InitTest /\ [][NextTest]_vars

\* sem_wait returns once the semaphore is positive.
FairSpecTest == SpecTest /\ WF_vars(WfeSemWait)

\* The server after main() has initialised the modules and listens.
InitServer ==
    /\ InitCommon
    /\ NoUnit
    /\ lpc = "accept"
    /\ host = 0
    /\ listening = TRUE

LoginFrames == {<<"LOGIN", i>> : i \in 1..MaxAvatar}
GameFrames ==
    LoginFrames \cup {<<"MOVE", 1>>, <<"MOVE", -1>>, <<"TURN", 1>>, <<"TURN", -1>>,
                      <<"FIRE", 0>>, <<"REFRESH", 0>>, <<"SEND", 1>>, <<"SEND", 0>>,
                      <<"OTHER", 0>>}

\* The steps of service task t that both server specifications have and
\* that need no input of the client.
SvcStep(t) ==
    \/ SvcRegister(t)
    \/ CheckHit(t)
    \/ Login(t)
    \/ Ready(t)
    \/ ReadySent(t)
    \/ ResetRemove(t)
    \/ ResetPlace(t)
    \/ LoopTest(t)
    \/ LoopBody(t)
    \/ LogoutMap(t)
    \/ LogoutMaze(t)
    \/ LogoutUnref(t)
    \/ SvcUnregister(t)

\* The steps of the commands of a logged-in client and of hit processing.
GameStep(t) ==
    \/ Ignored(t)
    \/ Move(t)
    \/ Turn(t)
    \/ Refresh(t)
    \/ OwnView(t)
    \/ Fire(t)
    \/ FireGet(t)
    \/ FireTag(t)
    \/ FireKill(t)
    \/ FireScore(t)
    \/ FireUnref(t)
    \/ Send(t)
    \/ HitRemove(t)
    \/ HitAlert(t)

\* The game: connections, frames and disconnections, no shutdown.
NextGame ==
    \/ \E t \in Tasks : Accept(t)
    \/ \E t \in Tasks : SvcStep(t)
    \/ \E t \in Tasks : GameStep(t)
    \/ \E t \in Tasks : RecvEof(t)
    \/ \E t \in Tasks, f \in GameFrames : RecvFrame(t, f)

SpecGame == InitServer /\ [][NextGame]_vars

\* The lifecycle: connections, logins, disconnections and SIGHUP.
TermStep ==
    \/ TermCloseListen
    \/ TermShutdownAll
    \/ WfeCheck
    \/ WfeSemWait
    \/ TermCregFini
    \/ TermPlayerFini
    \/ TermMazeFini
    \/ TermExit

NextLife ==
    \/ \E t \in Tasks : Accept(t)
    \/ \E t \in Tasks : SvcStep(t)
    \/ \E t \in Tasks : RecvShutdown(t)
    \/ \E t \in Tasks : RecvEof(t)
    \/ \E t \in Tasks, f \in LoginFrames : RecvFrame(t, f)
    \/ \E h \in {0} \cup Tasks : Sighup(h)
    \/ TermStep

SpecLife == InitServer /\ [][NextLife]_vars

\* A game in progress on a maze of one column: A, who has scored once, at
\* the bottom facing north, B at the top facing south after two turns, both
\* blocked in recv; a third connection has been accepted and its thread has
\* not yet registered.  nrecv counts the frames from here on.
Playing(p) == [IdleTask EXCEPT !.pc = "recv", !.player = p, !.this_player = p]

GameInProgress ==
    LET g == [maze_init EXCEPT ![MazeRows - 1][0] = "A", ![0][0] = "B"]
        a == [NewPlayer(1, "A", MazeRows - 1, 0, 1) EXCEPT !.score = 1]
        b == [NewPlayer(2, "B", 0, 0, 2) EXCEPT !.dir = SOUTH]
    IN  /\ maze = g
        /\ rec = player_update_view(player_update_view(<<a, b>>, g, 1), g, 2)
        /\ player_map = [v \in Av |-> IF v = "A" THEN 1 ELSE IF v = "B" THEN 2 ELSE NULL]
        /\ task = [t \in Threads |->
                      IF t \in {1, 2} THEN Playing(t)
                      ELSE IF t = 3 THEN [IdleTask EXCEPT !.pc = "start"]
                      ELSE IdleTask]
        /\ client_fds = creg_register_fds(creg_register_fds(<< >>, 1), 2)
        /\ count = 2
        /\ naccept = 3

InitLimbo ==
    /\ GameInProgress
    /\ NoUnit
    /\ empty = 0
    /\ creg_live = TRUE
    /\ rdshut = {}
    /\ wfe_empty = FALSE
    /\ nrecv = 0
    /\ maze_live = TRUE
    /\ ub = "none"
    /\ drained = FALSE
    /\ spurious = FALSE
    /\ lpc = "accept"
    /\ host = 0
    /\ listening = TRUE

\* What the clients send from there: A moves forward, B fires and may
\* disconnect, the third client logs in with the third avatar.
LimboFrames ==
    {<<1, <<"MOVE", 1>>>>, <<2, <<"FIRE", 0>>>>, <<3, <<"LOGIN", NumAvatars>>>>}

NextLimbo ==
    \/ \E t \in Tasks : SvcRegister(t)
    \/ \E tf \in LimboFrames : RecvFrame(tf[1], tf[2])
    \/ RecvEof(2)
    \/ \E t \in Tasks : CheckHit(t)
    \/ \E t \in Tasks : HitRemove(t)
    \/ \E t \in Tasks : HitAlert(t)
    \/ \E t \in Tasks : Login(t)
    \/ \E t \in Tasks : Ready(t)
    \/ \E t \in Tasks : ReadySent(t)
    \/ \E t \in Tasks : ResetRemove(t)
    \/ \E t \in Tasks : ResetPlace(t)
    \/ \E t \in Tasks : LoopTest(t)
    \/ \E t \in Tasks : LoopBody(t)
    \/ \E t \in Tasks : Move(t)
    \/ \E t \in Tasks : Fire(t)
    \/ \E t \in Tasks : FireGet(t)
    \/ \E t \in Tasks : FireTag(t)
    \/ \E t \in Tasks : FireKill(t)
    \/ \E t \in Tasks : FireScore(t)
    \/ \E t \in Tasks : FireUnref(t)
    \/ \E t \in Tasks : LogoutMap(t)
    \/ \E t \in Tasks : LogoutMaze(t)
    \/ \E t \in Tasks : LogoutUnref(t)
    \/ \E t \in Tasks : SvcUnregister(t)

SpecLimbo == InitLimbo /\ [][NextLimbo]_vars

\* The same game further on, a state SpecLimbo reaches: B has hit A and has
\* left, the third client has logged in as C and stands in the cell A has
\* on record, and the reset of A has failed on the full maze.  A and C are
\* blocked in recv; nrecv counts the frames from here on.
StrayInProgress ==
    LET g == [maze_init EXCEPT ![MazeRows - 1][0] = "C"]
        a == [NewPlayer(1, "A", MazeRows - 1, 0, 1) EXCEPT !.score = 1]
        c == NewPlayer(3, "C", MazeRows - 1, 0, 3)
    IN  /\ maze = g
        /\ rec = player_update_view(player_update_view(<<a, FreedPlayer, c>>, g, 1), g, 3)
        /\ player_map = [v \in Av |-> IF v = "A" THEN 1 ELSE IF v = "C" THEN 3 ELSE NULL]
        /\ task = [t \in Threads |->
                      IF t = 1 THEN [Playing(1) EXCEPT !.hret = "recv", !.rsret = "recv"]
                      ELSE IF t = 3 THEN [Playing(3) EXCEPT !.rsret = "top"]
                      ELSE IdleTask]
        /\ client_fds = (0 :> 1 @@ 2 :> 3)
        /\ count = 2
        /\ naccept = 3

InitStray ==
    /\ StrayInProgress
    /\ NoUnit
    /\ empty = 0
    /\ creg_live = TRUE
    /\ rdshut = {}
    /\ wfe_empty = FALSE
    /\ nrecv = 0
    /\ maze_live = TRUE
    /\ ub = "none"
    /\ drained = FALSE
    /\ spurious = FALSE
    /\ lpc = "accept"
    /\ host = 0
    /\ listening = TRUE

\* What the clients send from there: A moves forward or back, C fires or
\* turns.
StrayFrames ==
    {<<1, <<"MOVE", 1>>>>, <<1, <<"MOVE", -1>>>>, <<3, <<"FIRE", 0>>>>,
     <<3, <<"TURN", 1>>>>}

NextStray ==
    \/ \E tf \in StrayFrames : RecvFrame(tf[1], tf[2])
    \/ \E t \in Tasks : CheckHit(t)
    \/ \E t \in Tasks : HitRemove(t)
    \/ \E t \in Tasks : HitAlert(t)
    \/ \E t \in Tasks : ResetRemove(t)
    \/ \E t \in Tasks : ResetPlace(t)
    \/ \E t \in Tasks : LoopTest(t)
    \/ \E t \in Tasks : LoopBody(t)
    \/ \E t \in Tasks : Move(t)
    \/ \E t \in Tasks : Turn(t)
    \/ \E t \in Tasks : OwnView(t)
    \/ \E t \in Tasks : Fire(t)
    \/ \E t \in Tasks : FireGet(t)
    \/ \E t \in Tasks : FireTag(t)
    \/ \E t \in Tasks : FireKill(t)
    \/ \E t \in Tasks : FireScore(t)
    \/ \E t \in Tasks : FireUnref(t)

SpecStray == InitStray /\ [][NextStray]_vars

\* The game in progress of SpecLimbo with SIGHUP: the semaphore of the
\* registry holds the post of one earlier client that has come and gone
\* before A and B connected.  A fires at B, B moves, and SIGHUP arrives in
\* any thread; the thread of the third connection is not scheduled.
InitHup ==
    /\ GameInProgress
    /\ NoUnit
    /\ empty = 1
    /\ creg_live = TRUE
    /\ rdshut = {}
    /\ wfe_empty = FALSE
    /\ nrecv = 0
    /\ maze_live = TRUE
    /\ ub = "none"
    /\ drained = FALSE
    /\ spurious = FALSE
    /\ lpc = "accept"
    /\ host = 0
    /\ listening = TRUE

HupFrames == {<<1, <<"FIRE", 0>>>>, <<2, <<"MOVE", 1>>>>}

NextHup ==
    \/ \E tf \in HupFrames : RecvFrame(tf[1], tf[2])
    \/ \E t \in Tasks : RecvShutdown(t)
    \/ \E t \in Tasks : CheckHit(t)
    \/ \E t \in Tasks : HitRemove(t)
    \/ \E t \in Tasks : HitAlert(t)
    \/ \E t \in Tasks : ResetRemove(t)
    \/ \E t \in Tasks : ResetPlace(t)
    \/ \E t \in Tasks : LoopTest(t)
    \/ \E t \in Tasks : LoopBody(t)
    \/ \E t \in Tasks : Move(t)
    \/ \E t \in Tasks : Fire(t)
    \/ \E t \in Tasks : FireGet(t)
    \/ \E t \in Tasks : FireTag(t)
    \/ \E t \in Tasks : FireKill(t)
    \/ \E t \in Tasks : FireScore(t)
    \/ \E t \in Tasks : FireUnref(t)
    \/ \E t \in Tasks : LogoutMap(t)
    \/ \E t \in Tasks : LogoutMaze(t)
    \/ \E t \in Tasks : LogoutUnref(t)
    \/ \E t \in Tasks : SvcUnregister(t)
    \/ \E h \in {0} \cup Tasks : Sighup(h)
    \/ TermStep

SpecHup == InitHup /\ [][NextHup]_vars

\* One shot.  The game in progress as above; the client of A sends a single
\* FIRE, the first frame of the run, and afterwards the client of B sends
\* TURN frames.  The thread of the third connection is not scheduled.
InitShot ==
    /\ GameInProgress
    /\ NoUnit
    /\ empty = 0
    /\ creg_live = TRUE
    /\ rdshut = {}
    /\ wfe_empty = FALSE
    /\ nrecv = 0
    /\ maze_live = TRUE
    /\ ub = "none"
    /\ drained = FALSE
    /\ spurious = FALSE
    /\ lpc = "accept"
    /\ host = 0
    /\ listening = TRUE

ShotFire ==
    /\ nrecv = 0
    /\ RecvFrame(1, <<"FIRE", 0>>)

ShotTurn ==
    /\ nrecv > 0
    /\ RecvFrame(2, <<"TURN", 1>>)

NextShot ==
    \/ ShotFire
    \/ ShotTurn
    \/ \E t \in Tasks : CheckHit(t)
    \/ \E t \in Tasks : HitRemove(t)
    \/ \E t \in Tasks : HitAlert(t)
    \/ \E t \in Tasks : ResetRemove(t)
    \/ \E t \in Tasks : ResetPlace(t)
    \/ \E t \in Tasks : LoopTest(t)
    \/ \E t \in Tasks : LoopBody(t)
    \/ \E t \in Tasks : Turn(t)
    \/ \E t \in Tasks : OwnView(t)
    \/ \E t \in Tasks : Fire(t)
    \/ \E t \in Tasks : FireGet(t)
    \/ \E t \in Tasks : FireTag(t)
    \/ \E t \in Tasks : FireKill(t)
    \/ \E t \in Tasks : FireScore(t)
    \/ \E t \in Tasks : FireUnref(t)

SpecShot == InitShot /\ [][NextShot]_vars

\* The codec on its own: a caller gives proto_send_packet a frame whose
\* payload has exactly `size' bytes, on a host of either byte order;
\* proto_recv_packet is in its first read at the other end.
ProtoHeaders ==
    {[type |-> ty, param1 |-> ps[1], param2 |-> ps[2], param3 |-> ps[3], size |-> 0,
      pad |-> pad, timestamp_sec |-> <<0, 0>>, timestamp_nsec |-> <<0, 0>>] :
        ty \in {1, 12}, ps \in {<<65, 255, 0>>, <<1, 2, 3>>}, pad \in {<<0, 0>>, <<255, 255>>}}

ProtoPayloads == {SubSeq(<<104, 0, 105, 33>>, 1, n) : n \in 0..MaxPayload}

\* tv_sec and tv_nsec: 5 s 999999999 ns, 70000 s 1 ns.
ProtoClocks == {<< <<0, 5>>, <<15258, 51711>> >>, << <<1, 4464>>, <<0, 1>> >>}

InitProto ==
    /\ InitCommon
    /\ lpc = "accept"
    /\ host = 0
    /\ listening = FALSE
    /\ call = NULL
    /\ \E le \in BOOLEAN, h \in ProtoHeaders, d \in ProtoPayloads :
           px = [le |-> le, pkt |-> [h EXCEPT !.size = Len(d)],
                 data |-> IF d = << >> THEN NoData ELSE d]
    /\ snd = [pc |-> "call", pkt |-> NULL, buf |-> << >>, sent |-> << >>, short |-> FALSE]
    /\ net = << >>
    /\ rcv = [pc |-> "header", buf |-> << >>, count |-> HeaderSize, net_pkt |-> << >>,
              pkt |-> NULL, data |-> NoData, nintr |-> 0, short |-> FALSE, errno |-> "none"]

NextProto ==
    \/ \E clock \in ProtoClocks : SendStamp(clock)
    \/ \E n \in 1..(HeaderSize + MaxPayload) : WriteAll(n)
    \/ WriteAllFail
    \/ \E n \in 1..(HeaderSize + MaxPayload) : ReadAll(n)
    \/ \E errno \in {"EINTR", "ECONNRESET"} : ReadAllErrno(errno)
    \/ ReadAllEof

SpecProto == InitProto /\ [][NextProto]_vars

\* maze_get_view taken on its own: a grid, a position inside it, a gaze and a
\* depth are the inputs; the call writes the rows of *view and returns their
\* number.
ViewCells == {EMPTY, "*", "A"}
ViewGrids == [Rows -> [Cols -> ViewCells]]

InitView ==
    /\ client_fds = << >>
    /\ count = 0
    /\ empty = 0
    /\ creg_live = TRUE
    /\ rdshut = {}
    /\ wfe_empty = FALSE
    /\ naccept = 0
    /\ task = [t \in Threads |-> IdleTask]
    /\ nrecv = 0
    /\ player_map = [a \in Av |-> NULL]
    /\ rec = << >>
    /\ maze \in ViewGrids
    /\ maze_live = TRUE
    /\ ub = "none"
    /\ drained = FALSE
    /\ spurious = FALSE
    /\ lpc = "accept"
    /\ host = 0
    /\ listening = FALSE
    /\ px = NULL
    /\ snd = NULL
    /\ net = << >>
    /\ rcv = NULL
    /\ \E row \in Rows, col \in Cols, gaze \in Directions, depth \in 0..MaxDepth :
           call = [pc |-> "call", row |-> row, col |-> col, gaze |-> gaze,
                   depth |-> depth, view |-> << >>, rc |-> 0]

\* maze_get_view(&view, row, col, gaze, depth) under maze_mutex.
GetView ==
    /\ call.pc = "call"
    /\ LET view == maze_get_view(maze, call.row, call.col, call.gaze, call.depth)
       IN  call' = [call EXCEPT !.pc = "done", !.view = view, !.rc = Len(view)]
    /\ UNCHANGED <<serverVars, px, snd, net, rcv>>

NextView == GetView

SpecView == InitView /\ [][NextView]_vars

\* player_send_chat taken on its own: the sender's name and avatar and the
\* payload of the SEND frame are the inputs.  Characters are one-character
\* strings; NUL is the byte 0.
NUL == "NUL"
CHAT_BUF == 1024

\* The characters of a C string held in s: those before the first NUL.
CString(s) ==
    LET nuls == {i \in 1..Len(s) : s[i] = NUL}
    IN  SubSeq(s, 1, IF nuls = {} THEN Len(s)
                     ELSE (CHOOSE i \in nuls : \A j \in nuls : i <= j) - 1)

\* snprintf(buf, size, "%s[%c] %.*s", name, avatar, len, msg): at most
\* size - 1 characters and a NUL are stored; the value returned is the
\* number of characters the whole text has.
snprintf(size, name, avatar, len, msg) ==
    LET text == CString(name) \o <<"[", avatar, "]", " ">>
                    \o CString(SubSeq(msg, 1, len))
    IN  [n |-> Len(text),
         buf |-> IF Len(text) < size THEN text \o <<NUL>>
                 ELSE SubSeq(text, 1, size - 1) \o <<NUL>>]

\* The names, and the payloads of SEND: short ones, ones about as long as
\* buf, and ones with a NUL inside.
ChatNames == {<<"a">>, <<"a", "l">>}
ChatLens == (1..MaxMsg) \cup ((CHAT_BUF - 8)..(CHAT_BUF - 8 + MaxMsg))
ChatMsgs ==
    {[i \in 1..len |-> "h"] : len \in ChatLens}
    \cup {[i \in 1..len |-> IF i = 2 THEN NUL ELSE "h"] : len \in 2..MaxMsg}

\* What lies in the stack frame after buf.
StackBytes == {NUL, "?"}

InitChat ==
    /\ InitCommon
    /\ lpc = "accept"
    /\ host = 0
    /\ listening = FALSE
    /\ px = NULL
    /\ snd = NULL
    /\ net = << >>
    /\ rcv = NULL
    /\ \E name \in ChatNames, avatar \in Av, msg \in ChatMsgs :
           call = [pc |-> "call", name |-> name, avatar |-> avatar, msg |-> msg,
                   buf |-> << >>, size |-> 0, payload |-> << >>]

\* char buf[1024]; int n = snprintf(...); pkt = {.type = MZW_CHAT_PKT,
\* .size = n}: size is the 16-bit field of the header.
ChatFormat ==
    /\ call.pc = "call"
    /\ LET r == snprintf(CHAT_BUF, call.name, call.avatar, Len(call.msg), call.msg)
       IN  call' = [call EXCEPT !.pc = "send", !.buf = r.buf, !.size = r.n % 65536]
    /\ UNCHANGED <<serverVars, px, snd, net, rcv>>

\* player_send_packet(player_map[i], &pkt, buf): proto_send_packet writes
\* pkt.size bytes from buf.  The bytes past the end of buf are whatever the
\* stack holds.
ChatSend(g) ==
    /\ call.pc = "send"
    /\ call' = [call EXCEPT !.pc = "done",
                   !.payload = IF call.size <= Len(call.buf)
                               THEN SubSeq(call.buf, 1, call.size)
                               ELSE call.buf \o [i \in 1..(call.size - Len(call.buf)) |-> g]]
    /\ UNCHANGED <<serverVars, px, snd, net, rcv>>

NextChat ==
    \/ ChatFormat
    \/ \E g \in StackBytes : ChatSend(g)

SpecChat == InitChat /\ [][NextChat]_vars

\* creg_register taken on its own, on a registry that already holds the
\* descriptors of `held' connections (accept has no limit on their number):
\* the call, a creg_shutdown_all after it, and the creg_unregister of the
\* task.  Descriptors 0..3 are the standard streams and the listening socket.
FirstFd == 4
Registered(held) == [i \in 0..(held - 1) |-> FirstFd + i]

InitReg ==
    /\ creg_live = TRUE
    /\ empty = 0
    /\ rdshut = {}
    /\ wfe_empty = FALSE
    /\ naccept = 0
    /\ task = [t \in Threads |-> IdleTask]
    /\ nrecv = 0
    /\ player_map = [a \in Av |-> NULL]
    /\ rec = << >>
    /\ maze = maze_init
    /\ maze_live = TRUE
    /\ ub = "none"
    /\ drained = FALSE
    /\ spurious = FALSE
    /\ lpc = "accept"
    /\ host = 0
    /\ listening = TRUE
    /\ px = NULL
    /\ snd = NULL
    /\ net = << >>
    /\ rcv = NULL
    /\ \E held \in 0..MAX_CLIENTS :
           /\ client_fds = Registered(held)
           /\ count = held
           /\ call = [pc |-> "call", fd |-> FirstFd + held, before |-> held]

\* creg_register(client_registry, client_fd)
RegRegister ==
    /\ call.pc = "call"
    /\ CregRegister(call.fd)
    /\ call' = [call EXCEPT !.pc = "registered"]
    /\ UNCHANGED <<lifeVars, task, nrecv, gameVars, ub, px, snd, net, rcv>>

\* creg_shutdown_all(client_registry)
RegShutdownAll ==
    /\ call.pc = "registered"
    /\ rdshut' = rdshut \cup creg_shutdown_all_fds(client_fds)
    /\ call' = [call EXCEPT !.pc = "shut"]
    /\ UNCHANGED <<cregVars, lpc, host, listening, wfe_empty, naccept, task, nrecv,
                   gameVars, ub, histVars, px, snd, net, rcv>>

\* creg_unregister(client_registry, client_fd)
RegUnregister ==
    /\ call.pc \in {"registered", "shut"}
    /\ CregUnregister(call.fd)
    /\ call' = [call EXCEPT !.pc = "unregistered"]
    /\ UNCHANGED <<lifeVars, task, nrecv, gameVars, ub, px, snd, net, rcv>>

NextReg ==
    \/ RegRegister
    \/ RegShutdownAll
    \/ RegUnregister

SpecReg == InitReg /\ [][NextReg]_vars

(***************************************************************************)
(* The view cache of a player (player_update_view, player_invalidate_view) *)
(* taken on its own.  A frame is <<type, param1, param2, param3>>.         *)
(***************************************************************************)
VIEW_WIDTH == 3
ClearFrame == <<"CLEAR", EMPTY, 0, 0>>
ShowFrame(ch, x, d) == <<"SHOW", ch, x, d>>

\* The rows of last_view that a view of this maze can reach.
CacheRows == IF MazeRows > MazeCols THEN MazeRows ELSE MazeCols

\* if (player->view_valid_depth < 0)
view_is_invalid_never(valid) == FALSE
view_is_invalid(valid) == valid < 0

\* The cells of a view of `depth' rows in the order of the two loops:
\* d outside, x inside.
RECURSIVE ViewCellsFrom(_, _, _)
ViewCellsFrom(d, x, depth) ==
    IF d >= depth THEN << >>
    ELSE IF x >= VIEW_WIDTH THEN ViewCellsFrom(d + 1, 0, depth)
    ELSE << <<d, x>> >> \o ViewCellsFrom(d, x + 1, depth)

\* The frames player_update_view sends: CLEAR and every cell when the cache
\* is invalid, else the cells that differ from last_view.
RECURSIVE ShowFrames(_, _, _, _)
ShowFrames(cells, view, last, all) ==
    IF cells = << >> THEN << >>
    ELSE LET d == Head(cells)[1]
             x == Head(cells)[2]
             rest == ShowFrames(Tail(cells), view, last, all)
         IN  IF all \/ view[d + 1][x + 1] # last[d + 1][x + 1]
             THEN <<ShowFrame(view[d + 1][x + 1], x, d)>> \o rest
             ELSE rest

update_view_frames(valid, last, view) ==
    IF view_is_invalid(valid)
    THEN <<ClearFrame>> \o ShowFrames(ViewCellsFrom(0, 0, Len(view)), view, last, TRUE)
    ELSE ShowFrames(ViewCellsFrom(0, 0, Len(view)), view, last, FALSE)

\* memcpy(player->last_view, view, sizeof(view)): the rows maze_get_view has
\* written, and for the others what the stack held in the local array.
update_view_memcpy(view, junk) ==
    [d \in 1..CacheRows |-> IF d <= Len(view) THEN view[d] ELSE junk]

\* What an unwritten row of the local array can hold.
JunkRows == {<<"?", "?", "?">>, <<EMPTY, "*", EMPTY>>}

\* The cache of a player that has been shown the maze `old' from where it
\* stands, and the cache of one that has been shown nothing (calloc).
ZeroRow == <<NUL, NUL, NUL>>
CacheOf(old, row, col, dir, junk) ==
    update_view_memcpy(maze_get_view(old, row, col, dir, VIEW_DEPTH), junk)

\* The mazes in which player A stands at (row, col): every other cell is
\* empty, a wall or another avatar.
GridsAround(row, col) ==
    {g \in [Rows -> [Cols -> {EMPTY, "*", "A", "B"}]] :
        \A r \in Rows, c \in Cols : (g[r][c] = "A") <=> (r = row /\ c = col)}

\* The refresher R is the service task of the player: it has read REFRESH
\* and calls player_invalidate_view, without the lock, then
\* player_update_view.  The updater U is another task inside a loop over the
\* table that calls player_update_view on the same player.
InitCache ==
    /\ client_fds = << >>
    /\ count = 0
    /\ empty = 0
    /\ creg_live = TRUE
    /\ rdshut = {}
    /\ wfe_empty = FALSE
    /\ naccept = 0
    /\ task = [t \in Threads |-> IdleTask]
    /\ nrecv = 0
    /\ player_map = [a \in Av |-> NULL]
    /\ rec = << >>
    /\ maze_live = TRUE
    /\ ub = "none"
    /\ drained = FALSE
    /\ spurious = FALSE
    /\ lpc = "accept"
    /\ host = 0
    /\ listening = TRUE
    /\ px = NULL
    /\ snd = NULL
    /\ net = << >>
    /\ rcv = NULL
    /\ \E row \in Rows, col \in Cols, dir \in Directions,
          shown \in BOOLEAN, junk \in JunkRows :
       \E now \in GridsAround(row, col), old \in GridsAround(row, col) :
        /\ maze = now
        /\ call = [row |-> row, col |-> col, dir |-> dir,
                   view_valid_depth |->
                       IF shown THEN Len(maze_get_view(old, row, col, dir, VIEW_DEPTH))
                       ELSE -1,
                   last_view |-> IF shown THEN CacheOf(old, row, col, dir, junk)
                                 ELSE [d \in 1..CacheRows |-> ZeroRow],
                   mutex |-> "none",
                   pc |-> [k \in {"R", "U"} |-> "call"],
                   view |-> [k \in {"R", "U"} |-> << >>],
                   entry |-> [k \in {"R", "U"} |-> [valid |-> 0, last |-> << >>]],
                   sent |-> [k \in {"R", "U"} |-> << >>],
                   out |-> << >>]

\* case MZW_REFRESH_PKT: player_invalidate_view(player)
CacheInvalidate ==
    /\ call.pc["R"] = "call"
    /\ call' = [call EXCEPT !.pc["R"] = "update", !.view_valid_depth = -1]
    /\ UNCHANGED <<serverVars, px, snd, net, rcv>>

\* player_update_view, from the lock to the last player_send_packet.
CacheUpdateSend(k) ==
    /\ call.pc[k] = IF k = "R" THEN "update" ELSE "call"
    /\ call.mutex = "none"
    /\ LET view == maze_get_view(maze, call.row, call.col, call.dir, VIEW_DEPTH)
           frames == update_view_frames(call.view_valid_depth, call.last_view, view)
       IN  call' = [call EXCEPT !.pc[k] = "memcpy", !.mutex = k, !.view[k] = view,
                       !.entry[k] = [valid |-> call.view_valid_depth,
                                     last |-> call.last_view],
                       !.sent[k] = frames,
                       !.out = @ \o frames]
    /\ UNCHANGED <<serverVars, px, snd, net, rcv>>

\* player_update_view: memcpy, view_valid_depth = depth, unlock.
CacheUpdateStore(k, junk) ==
    /\ call.pc[k] = "memcpy"
    /\ call' = [call EXCEPT !.pc[k] = "done", !.mutex = "none",
                   !.last_view = update_view_memcpy(call.view[k], junk),
                   !.view_valid_depth = Len(call.view[k])]
    /\ UNCHANGED <<serverVars, px, snd, net, rcv>>

NextCache ==
    \/ CacheInvalidate
    \/ \E k \in {"R", "U"} : CacheUpdateSend(k)
    \/ \E k \in {"R", "U"}, junk \in JunkRows : CacheUpdateStore(k, junk)

SpecCache == InitCache /\ [][NextCache]_vars

\* player_move taken on its own.  Player A has (row, col) on record; the
\* cell there holds its avatar, or something else after a failed reset.  The
\* player has been shown its current view, or nothing yet.
MoveGrids ==
    {g \in [Rows -> [Cols -> {EMPTY, "*", "A", "B"}]] :
        \A a \in {"A", "B"} :
            Cardinality({rc \in Rows \X Cols : g[rc[1]][rc[2]] = a}) <= 1}

InitMove ==
    /\ client_fds = << >>
    /\ count = 0
    /\ empty = 0
    /\ creg_live = TRUE
    /\ rdshut = {}
    /\ wfe_empty = FALSE
    /\ naccept = 0
    /\ task = [t \in Threads |-> IdleTask]
    /\ nrecv = 0
    /\ player_map = [a \in Av |-> NULL]
    /\ rec = << >>
    /\ maze \in MoveGrids
    /\ maze_live = TRUE
    /\ ub = "none"
    /\ drained = FALSE
    /\ spurious = FALSE
    /\ lpc = "accept"
    /\ host = 0
    /\ listening = TRUE
    /\ px = NULL
    /\ snd = NULL
    /\ net = << >>
    /\ rcv = NULL
    /\ \E row \in Rows, col \in Cols, dir \in Directions, sign \in {1, -1},
          shown \in BOOLEAN :
           call = [pc |-> "call", sign |-> sign, rc |-> 0,
                   row |-> row, col |-> col, dir |-> dir,
                   view_valid_depth |->
                       IF shown THEN Len(maze_get_view(maze, row, col, dir, VIEW_DEPTH))
                       ELSE -1,
                   last_view |-> IF shown
                                 THEN CacheOf(maze, row, col, dir, <<"?", "?", "?">>)
                                 ELSE [d \in 1..CacheRows |-> ZeroRow],
                   was |-> [grid |-> maze, row |-> row, col |-> col, dir |-> dir,
                            shown |-> shown],
                   sent |-> << >>]

\* player_move, the part under the lock of the player.
MoveLocked ==
    /\ call.pc = "call"
    /\ LET d == move_dir(call.dir, call.sign)
           res == maze_move(maze, call.row, call.col, d)
       IN  /\ maze' = res.grid
           /\ call' = IF res.rc = 0
                      THEN [call EXCEPT !.pc = "views", !.rc = 0,
                                        !.row = moved_row(@, d), !.col = moved_col(@, d)]
                      ELSE [call EXCEPT !.pc = "views", !.rc = res.rc]
    /\ UNCHANGED <<cregVars, lifeVars, task, nrecv, player_map, rec, maze_live, ub,
                   histVars, px, snd, net, rcv>>

\* player_move: player_update_view(player_map[i]) for the player itself,
\* and return rc.
MoveUpdateView(junk) ==
    /\ call.pc = "views"
    /\ LET view == maze_get_view(maze, call.row, call.col, call.dir, VIEW_DEPTH)
       IN  call' = [call EXCEPT !.pc = "done",
                       !.sent = update_view_frames(call.view_valid_depth,
                                                   call.last_view, view),
                       !.last_view = update_view_memcpy(view, junk),
                       !.view_valid_depth = Len(view)]
    /\ UNCHANGED <<serverVars, px, snd, net, rcv>>

NextMove ==
    \/ MoveLocked
    \/ \E junk \in JunkRows : MoveUpdateView(junk)

SpecMove == InitMove /\ [][NextMove]_vars

\* maze_find_target taken on its own, from every in-bounds cell and gaze on
\* every grid of empty cells, walls and at most one avatar of each of A, B.
InitTarget ==
    /\ client_fds = << >>
    /\ count = 0
    /\ empty = 0
    /\ creg_live = TRUE
    /\ rdshut = {}
    /\ wfe_empty = FALSE
    /\ naccept = 0
    /\ task = [t \in Threads |-> IdleTask]
    /\ nrecv = 0
    /\ player_map = [a \in Av |-> NULL]
    /\ rec = << >>
    /\ maze \in MoveGrids
    /\ maze_live = TRUE
    /\ ub = "none"
    /\ drained = FALSE
    /\ spurious = FALSE
    /\ lpc = "accept"
    /\ host = 0
    /\ listening = FALSE
    /\ px = NULL
    /\ snd = NULL
    /\ net = << >>
    /\ rcv = NULL
    /\ \E row \in Rows, col \in Cols, dir \in Directions :
           call = [pc |-> "call", row |-> row, col |-> col, dir |-> dir,
                   grid |-> maze, result |-> EMPTY]

\* maze_find_target(row, col, dir) under maze_mutex; the grid is only read.
FindTarget ==
    /\ call.pc = "call"
    /\ call' = [call EXCEPT !.pc = "done",
                    !.result = maze_find_target(maze, call.row, call.col, call.dir)]
    /\ UNCHANGED <<serverVars, px, snd, net, rcv>>

NextTarget == FindTarget

SpecTarget == InitTarget /\ [][NextTarget]_vars

\* The screen of one client.  Player A has logged in and stands in the maze;
\* `screen' is what its client shows after applying, in order, every CLEAR
\* and SHOW frame written to it: CLEAR blanks every cell, SHOW sets one.
BlankScreen == [d \in 1..CacheRows |-> ZeroRow]

RECURSIVE ApplyFrames(_, _)
ApplyFrames(screen, frames) ==
    IF frames = << >> THEN screen
    ELSE LET f == Head(frames)
         IN  ApplyFrames(IF f[1] = "CLEAR" THEN BlankScreen
                         ELSE [screen EXCEPT ![f[4] + 1][f[3] + 1] = f[2]],
                         Tail(frames))

\* The grids around one avatar A: the other cells are empty, a wall or B.
ScreenGrids ==
    {g \in MoveGrids : \E r \in Rows, c \in Cols : g[r][c] = "A"}

InitScreen ==
    /\ client_fds = << >>
    /\ count = 0
    /\ empty = 0
    /\ creg_live = TRUE
    /\ rdshut = {}
    /\ wfe_empty = FALSE
    /\ naccept = 0
    /\ task = [t \in Threads |-> IdleTask]
    /\ nrecv = 0
    /\ player_map = [a \in Av |-> NULL]
    /\ rec = << >>
    /\ maze \in ScreenGrids
    /\ maze_live = TRUE
    /\ ub = "none"
    /\ drained = FALSE
    /\ spurious = FALSE
    /\ lpc = "accept"
    /\ host = 0
    /\ listening = FALSE
    /\ px = NULL
    /\ snd = NULL
    /\ net = << >>
    /\ rcv = NULL
    /\ \E row \in Rows, col \in Cols :
        /\ maze[row][col] = "A"
        /\ call = [row |-> row, col |-> col, dir |-> NORTH,
                   view_valid_depth |-> -1,
                   last_view |-> [d \in 1..CacheRows |-> ZeroRow],
                   screen |-> BlankScreen, sent |-> << >>, op |-> "login"]

\* player_update_view(A) on grid g, with A at (row, col) gazing dir: the
\* frames go to the client, the view to the cache.
ScreenUpdate(op, g, row, col, dir, valid, junk) ==
    LET view == maze_get_view(g, row, col, dir, VIEW_DEPTH)
        frames == update_view_frames(valid, call.last_view, view)
    IN  /\ maze' = g
        /\ call' = [row |-> row, col |-> col, dir |-> dir,
                    view_valid_depth |-> Len(view),
                    last_view |-> update_view_memcpy(view, junk),
                    screen |-> ApplyFrames(call.screen, frames),
                    sent |-> frames, op |-> op]
        /\ UNCHANGED <<cregVars, lifeVars, task, nrecv, player_map, rec,
                       maze_live, ub, histVars, px, snd, net, rcv>>

\* player_reset at login, from step 6 on: player_update_view on the new
\* player.
ScreenLogin(junk) ==
    /\ call.op = "login"
    /\ ScreenUpdate("reset", maze, call.row, call.col, call.dir,
                    call.view_valid_depth, junk)

\* player_move(A, sign) followed by its player_update_view(A).
ScreenMove(sign, junk) ==
    /\ call.op # "login"
    /\ LET md == move_dir(call.dir, sign)
           m == maze_move(maze, call.row, call.col, md)
       IN  ScreenUpdate("move", m.grid,
                        IF m.rc = 0 THEN call.row + drow[md + 1] ELSE call.row,
                        IF m.rc = 0 THEN call.col + dcol[md + 1] ELSE call.col,
                        call.dir, call.view_valid_depth, junk)

\* player_rotate(A, dir): the turn, player_invalidate_view, player_update_view.
ScreenRotate(dir, junk) ==
    /\ call.op # "login"
    /\ ScreenUpdate("rotate", maze, call.row, call.col,
                    IF dir = 1 THEN TURN_LEFT(call.dir) ELSE TURN_RIGHT(call.dir),
                    -1, junk)

\* Another player's operation (a move, a hit with its removal, a reset with
\* its placement) changes where B is, then its loop over the table calls
\* player_update_view(A).
ScreenOther(g, junk) ==
    /\ call.op # "login"
    /\ g \in ScreenGrids
    /\ \A r \in Rows, c \in Cols :
           g[r][c] # maze[r][c] => {g[r][c], maze[r][c]} = {EMPTY, "B"}
    /\ ScreenUpdate("other", g, call.row, call.col, call.dir,
                    call.view_valid_depth, junk)

NextScreen ==
    \/ \E junk \in JunkRows : ScreenLogin(junk)
    \/ \E sign \in {1, -1}, junk \in JunkRows : ScreenMove(sign, junk)
    \/ \E dir \in {1, -1}, junk \in JunkRows : ScreenRotate(dir, junk)
    \/ \E g \in ScreenGrids, junk \in JunkRows : ScreenOther(g, junk)

SpecScreen == InitScreen /\ [][NextScreen]_vars

(***************************************************************************)
(* Properties.                                                             *)
(***************************************************************************)
\* Service task t is in its loop (blocked in recv included).
InLoop(t) == task[t].pc \in ({"recv", "top", "post", "dispatch"} \cup OpPcs)
                              \ {"lo_map", "lo_maze", "lo_unref"}

\* creg_wait_for_empty has returned in terminate.
WaitReturned == lpc \in {"creg_fini", "player_fini", "maze_fini", "exit"}

\* C1: in the teardown sequence, once creg_shutdown_all has run and
\* creg_wait_for_empty has returned, the count of the registry is 0 and no
\* service task is in its loop or blocked in recv.
C1_DrainedAfterWait ==
    WaitReturned => (count = 0 /\ \A t \in Tasks : ~InLoop(t))

\* C2: creg_wait_for_empty returns at once only when count is 0 at entry and
\* otherwise returns only after an unregister has taken count to 0 since the
\* call began; the semaphore is posted only by an unregister that takes count
\* from 1 to 0.
C2_WaitReturnsWhenDrained ==
    /\ lpc \in {"test_join", "test_fini", "exited"} => (wfe_empty \/ drained)
    /\ wfe_empty => lpc # "wfe_wait"
    /\ ~spurious

\* C3: a record is destroyed exactly when its ref_count reaches 0, and no
\* task reads, writes or locks a destroyed record.
C3_NoUseAfterDestroy ==
    /\ ub # "use_after_free"
    /\ \A p \in DOMAIN rec : rec[p].live <=> rec[p].ref_count > 0

\* The service task t is in recv, the record of its player is tagged, and
\* the player_fire_laser that tagged it has sent the signal and returned.
HitPending(t) ==
    /\ task[t].pc = "recv"
    /\ task[t].this_player # NULL
    /\ Live(task[t].this_player)
    /\ rec[task[t].this_player].laser_hit
    /\ \A s \in Tasks : task[s].victim # task[t].this_player

\* C4: when a player has been hit while its service task is blocked in recv,
\* the task goes on to process the hit without a further frame of its client:
\* it has a step to take that is not an input of the client.
C4_HitProcessedWithoutFrame ==
    \A t \in Tasks : (ub = "none" /\ HitPending(t)) => ENABLED (SvcStep(t) \/ GameStep(t))

\* C5: for every player in the table whose lock is free, the cell of the maze
\* at its row and column holds its avatar.
C5_TablePlayerInCell ==
    \A a \in Av :
        LET p == player_map[a] IN
        (p # NULL /\ Live(p) /\ rec[p].mutex = NULL)
            => maze[rec[p].row][rec[p].col] = rec[p].avatar

\* C6: for every avatar at most one cell of the maze holds it and at most one
\* live record has it.
C6_AvatarUnique ==
    \A a \in Av :
        /\ Cardinality({rc \in Rows \X Cols : maze[rc[1]][rc[2]] = a}) <= 1
        /\ Cardinality({p \in DOMAIN rec : rec[p].live /\ rec[p].avatar = a}) <= 1

\* C7: after SIGHUP the teardown completes whatever the clients do: no state
\* of a teardown in progress is a deadlock, where neither terminate nor any
\* service task has a step to take that needs no input of a client.
C7_TeardownNeverStuck ==
    (lpc \notin {"accept", "exited"} /\ ub = "none")
        => ENABLED (TermStep \/ \E t \in Tasks : (SvcStep(t) \/ RecvShutdown(t)))

\* C8: when a player operation that has changed the maze grid returns, it
\* has called update_view, after the change, on every player that has been in
\* the table since the change.
C8_ViewsBeforeReturn ==
    [][\A t \in Tasks :
          (task[t].pc \in OpPcs /\ task'[t].pc \notin OpPcs)
              => task'[t].stale \cap Table(player_map') = {}]_vars

\* C9: a table entry for avatar A points to a record that has avatar A and a
\* ref_count of at least 1 (it has not been destroyed).
C9_TableEntryValid ==
    \A a \in Av :
        player_map[a] # NULL =>
            /\ rec[player_map[a]].live
            /\ rec[player_map[a]].avatar = a
            /\ rec[player_map[a]].ref_count >= 1

\* C10: no lost wake-up: when an unregister takes count to 0 after the
\* waiter's check of count has sent it to sem_wait, the waiter returns.
C10_NoLostWakeup ==
    (lpc = "wfe_wait" /\ drained) ~> (lpc # "wfe_wait")

\* The waiter has found count > 0, an unregister has then taken count to 0,
\* and the waiter has returned.
C10_Witness == lpc = "test_join" /\ ~wfe_empty /\ drained

\* Service task t is about to run player_login for an avatar that is in the
\* table.
LoginInUse(t) ==
    /\ task[t].pc = "dispatch"
    /\ task[t].pkt[1] = "LOGIN"
    /\ task[t].player = NULL
    /\ player_map[AVATARS[task[t].pkt[2]]] # NULL

\* Service task t has left player_logout's critical section of map_mutex.
PastLogoutMap(t) == task[t].pc \in {"lo_maze", "lo_unref", "unreg"}

\* C11: a LOGIN for an avatar that is in the player table fails: the client
\* is sent INUSE and nothing else, the table, the maze and every record are
\* unchanged and the task is back at recv without a player, as a task that
\* has not logged in; and two connections never both hold a login for the
\* same avatar unless one of them has left the table in its logout, so of
\* two concurrent LOGINs for a free avatar one gets READY and the other INUSE.
C11_LoginInUse ==
    /\ [](\A t, s \in Tasks :
            (t # s /\ task[t].player # NULL /\ task[s].player # NULL
                 /\ rec[task[t].player].avatar = rec[task[s].player].avatar)
                => (PastLogoutMap(t) \/ PastLogoutMap(s)))
    /\ [][\A t \in Tasks :
            (LoginInUse(t) /\ task'[t] # task[t])
                => /\ task'[t].out = <<<<"INUSE", NULL>>>>
                   /\ gameVars' = gameVars
                   /\ task'[t].pc = "recv"
                   /\ task'[t].player = NULL
                   /\ task'[t].this_player = NULL]_vars

\* A connection has been refused an avatar that another connection holds and
\* is back at recv.
C11_Witness ==
    \E t, s \in Tasks :
        /\ t # s
        /\ task[t].pc = "recv" /\ task[t].player = NULL
        /\ task[t].out = <<<<"INUSE", NULL>>>>
        /\ task[s].player # NULL /\ player_map[rec[task[s].player].avatar] = task[s].player

\* The bytes proto_recv_packet has put in net_pkt and in the buffer of the
\* payload so far.
Received ==
    IF rcv.pc = "header" THEN rcv.buf
    ELSE IF rcv.pc = "payload" THEN rcv.net_pkt \o rcv.buf
    ELSE rcv.net_pkt \o (IF rcv.data = NoData THEN << >> ELSE rcv.data)

\* C12: proto_recv_packet never reports an error because of a signal: it
\* returns -1 only after an end of file or a failure of the connection, and
\* whatever the number of interruptions and wherever they occur, the bytes it
\* has put in the header and in the payload are, in order, exactly the bytes
\* written that are no longer in flight: none is lost, none is read twice.
C12_SignalsNeverSurface ==
    /\ rcv.pc = "error" => rcv.errno \in {"EOF", "ECONNRESET"}
    /\ rcv.pc \in {"header", "payload", "done"} => Received \o net = snd.sent
    /\ rcv.pc = "done" =>
           /\ rcv.pkt = recv_header(SubSeq(snd.sent, 1, HeaderSize), px.le)
           /\ rcv.pkt.size > 0 =>
                  rcv.data = SubSeq(snd.sent, HeaderSize + 1, HeaderSize + rcv.pkt.size)

\* proto_recv_packet has returned a frame with a payload after signals have
\* interrupted the reads of the header and of the payload.
C12_Witness ==
    /\ rcv.pc = "done" /\ rcv.nintr = MaxIntr /\ rcv.short
    /\ rcv.data # NoData /\ Len(rcv.data) = MaxPayload

\* C13: protocol round trip: proto_recv_packet, on the bytes proto_send_packet
\* has written, returns the type, the params and the size of the caller's
\* frame and the bytes of its payload (no payload when size is 0), with the
\* timestamps the sender has stamped, however the stream is split into short
\* writes and short reads; it has returned once it has read the last byte
\* written.
C13_RoundTrip ==
    /\ rcv.pc \in {"payload", "done"} =>
           /\ rcv.pkt.type = px.pkt.type
           /\ rcv.pkt.param1 = px.pkt.param1
           /\ rcv.pkt.param2 = px.pkt.param2
           /\ rcv.pkt.param3 = px.pkt.param3
           /\ rcv.pkt.size = px.pkt.size
           /\ rcv.pkt.timestamp_sec = snd.pkt.timestamp_sec
           /\ rcv.pkt.timestamp_nsec = snd.pkt.timestamp_nsec
    /\ rcv.pc = "done" => rcv.data = px.data
    /\ (snd.pc = "done" /\ net = << >> /\ rcv.errno = "none") => rcv.pc = "done"

\* A frame with a payload has gone through short writes and short reads on a
\* little-endian host.
C13_Witness ==
    /\ rcv.pc = "done" /\ snd.pc = "done" /\ px.le
    /\ rcv.short /\ snd.short
    /\ px.pkt.size = MaxPayload

\* Service task t is about to run player_move, and maze_move will return 0.
MoveSucceeds(t) ==
    /\ task[t].pc = "dispatch"
    /\ task[t].pkt[1] = "MOVE"
    /\ task[t].player # NULL
    /\ Live(task[t].player)
    /\ maze_move(maze, rec[task[t].player].row, rec[task[t].player].col,
                 move_dir(rec[task[t].player].dir, task[t].pkt[2])).rc = 0

\* C14: when player_move(p, sign) succeeds from (r,c), the direction of the
\* move is p.dir for sign = +1 and REVERSE(p.dir) for sign = -1; when
\* maze_move has completed, the destination (r,c) + offset(direction) holds
\* p.avatar and (r,c) is EMPTY; p.row and p.col are the destination and
\* p.dir is unchanged.
C14_MoveMovesPlayer ==
    [][\A t \in Tasks :
          (MoveSucceeds(t) /\ task'[t].pc = "mv_views")
              => LET p == task[t].player
                     d == IF task[t].pkt[2] = 1 THEN rec[p].dir ELSE REVERSE(rec[p].dir)
                     r == rec[p].row + drow[d + 1]
                     c == rec[p].col + dcol[d + 1]
                 IN  /\ maze'[r][c] = rec[p].avatar
                     /\ maze'[rec[p].row][rec[p].col] = EMPTY
                     /\ rec'[p].row = r
                     /\ rec'[p].col = c
                     /\ rec'[p].dir = rec[p].dir]_vars

\* Service task t is in player_reset after maze_remove_player, and this step
\* is the return of player_reset after maze_set_player_random has failed.
ResetFails(t) ==
    /\ task[t].pc = "rs_place"
    /\ task'[t].pc = task[t].rsret

\* C20: when the random placement inside player_reset fails, the player
\* stays in the table with its row and col unchanged, its score is 0, its
\* avatar is in no cell of the maze, no SCORE frame is sent and the lock of
\* the player is released.
C20_FailedResetState ==
    [][\A t \in Tasks :
          ResetFails(t)
              => LET p == task[t].this_player IN
                 /\ player_map'[rec[p].avatar] = p
                 /\ rec'[p].row = rec[p].row
                 /\ rec'[p].col = rec[p].col
                 /\ rec'[p].score = 0
                 /\ \A r \in Rows, c \in Cols : maze'[r][c] # rec[p].avatar
                 /\ task'[t].out = task[t].out
                 /\ rec'[p].mutex = NULL]_vars

\* Service task t completes player_logout with this step.
LogoutReturns(t) ==
    /\ task[t].pc = "lo_unref"
    /\ task'[t].pc = "unreg"

\* C17: after player_logout(p) the table entry of p.avatar no longer points
\* to p, the cell at p's row and col no longer holds p.avatar, and a SCORE
\* frame {p.avatar, -1} has been sent to every player remaining in the table.
C17_LogoutScoreToAll ==
    [][\A t \in Tasks :
          LogoutReturns(t)
              => LET p == task[t].player IN
                 /\ player_map'[rec[p].avatar] # p
                 /\ maze'[rec[p].row][rec[p].col] # rec[p].avatar
                 /\ \A q \in Table(player_map') :
                        \E i \in DOMAIN task'[t].out :
                            task'[t].out[i] = <<"SCORE", q>>]_vars

\* Service task t is inside a write to the connection of player q that it
\* makes without q's lock: the READY reply, after player_login has put q in
\* the table.
WritesUnlocked(t, q) ==
    /\ task[t].pc = "ready_w"
    /\ task[t].player = q
    /\ q \in Table(player_map)

\* Service task s writes a frame addressed to player q in this step.
WritesTo(s, q) ==
    /\ Len(task'[s].out) = Len(task[s].out) + 1
    /\ task'[s].out[Len(task'[s].out)][2] = q

\* C18: at most one task at a time writes a frame to a client's connection:
\* every frame addressed to a player in the table is written holding that
\* player's lock, so no task writes to the connection of a player while
\* another task is inside a write to it.
C18_OneWriterPerConnection ==
    [][\A t \in Tasks, s \in Tasks, q \in DOMAIN rec :
          (s # t /\ WritesUnlocked(t, q)) => ~WritesTo(s, q)]_vars

\* C19: for every grid, position, gaze and depth, maze_get_view writes for
\* each step i the corridor cell at (r,c) + i*forward(gaze), as LEFT_WALL the
\* cell at the corridor cell plus left(gaze) or '*' out of bounds, as
\* RIGHT_WALL the cell at the corridor cell minus left(gaze) or '*' out of
\* bounds, with forward = {N:(-1,0), W:(0,-1), S:(+1,0), E:(0,+1)} and
\* left = {N:(0,-1), W:(+1,0), S:(0,+1), E:(-1,0)}; it stops at the first
\* corridor step out of bounds and returns the number of steps written.
C19_ViewOffsets ==
    LET forward == << <<-1, 0>>, <<0, -1>>, <<1, 0>>, <<0, 1>> >>
        left == << <<0, -1>>, <<1, 0>>, <<0, 1>>, <<-1, 0>> >>
        f == forward[call.gaze + 1]
        l == left[call.gaze + 1]
        cell(r, c) == IF InBounds(r, c) THEN maze[r][c] ELSE "*"
        inside(i) == InBounds(call.row + i * f[1], call.col + i * f[2])
    IN  call.pc = "done"
            => /\ call.rc = Len(call.view)
               /\ call.rc <= call.depth
               /\ \A i \in 0..(call.rc - 1) :
                      LET r == call.row + i * f[1]
                          c == call.col + i * f[2]
                      IN  /\ inside(i)
                          /\ call.view[i + 1][2] = maze[r][c]
                          /\ call.view[i + 1][1] = cell(r + l[1], c + l[2])
                          /\ call.view[i + 1][3] = cell(r - l[1], c - l[2])
               /\ call.rc < call.depth => ~inside(call.rc)

\* C15: when a logged-in player sends SEND with a non-empty payload msg, the
\* CHAT frame sent to the players in the table has the payload
\* "<sender name>[<sender avatar>] <msg>".
C15_ChatPayload ==
    call.pc = "done"
        => call.payload = call.name \o <<"[", call.avatar, "]", " ">> \o call.msg

\* Service task t has left its loop on an error of proto_recv_packet and has
\* not yet unregistered and closed its descriptor.
InCleanup(t) == task[t].pc \in {"lo_map", "lo_maze", "lo_unref", "unreg"}

\* C16: once recv has reported an error the service task goes on to log out
\* the bound player (if a login succeeded), unregister its descriptor and
\* close it: while it is on the way it has a step to take, or the handler
\* that runs on top of it has one.
C16_CleanupCompletes ==
    \A t \in Tasks :
        (ub = "none" /\ lpc # "exited" /\ InCleanup(t))
            => ENABLED (SvcStep(t) \/ TermStep)

\* C25: on the graceful-stop signal the steps of the teardown come in the
\* order close, creg_shutdown_all, creg_wait_for_empty, player module, maze,
\* client registry, exit: the registry is finalized only after the player
\* module and the maze are.
C25_RegistryFinalizedLast ==
    ~creg_live => (~maze_live /\ lpc \in {"exit", "exited"})

\* C26: after creg_register(fd) has returned, fd is in the set of the
\* registry and count is one greater than before the call, whatever number
\* of descriptors is registered already; and a creg_shutdown_all after it
\* reaches fd, which has not been unregistered.
C26_RegisterAlwaysInserts ==
    /\ call.pc \in {"registered", "shut"}
           => /\ SlotsOf(client_fds, call.fd) # {}
              /\ count = call.before + 1
    /\ call.pc = "shut" => call.fd \in rdshut

\* Service task t has read a frame that the dispatch is to ignore: a command
\* before a successful login, a LOGIN after one, or a frame of unknown type.
IgnoredFrame(t) ==
    /\ task[t].pc = "dispatch"
    /\ \/ task[t].pkt[1] \in {"MOVE", "TURN", "FIRE", "REFRESH", "SEND"}
          /\ task[t].player = NULL
       \/ task[t].pkt[1] = "LOGIN" /\ task[t].player # NULL
       \/ task[t].pkt[1] = "OTHER"

\* C29: in the service loop a MOVE, TURN, FIRE, REFRESH or SEND frame
\* received before a successful login, a LOGIN frame received after one and
\* a frame of unknown type are given to no operation of the player module,
\* and their dispatch leaves the maze, the player table and every player
\* record unchanged, sends no frame and keeps the task in its loop.
C29_IgnoredFrames ==
    /\ [](\A t \in Tasks :
             (ub = "none" /\ IgnoredFrame(t) /\ TaskRuns(t) /\ lpc # "exited")
                 => /\ ENABLED Ignored(t)
                    /\ ~ENABLED (Login(t) \/ Move(t) \/ Turn(t) \/ Fire(t)
                                    \/ Refresh(t) \/ Send(t)))
    /\ [][\A t \in Tasks :
             (IgnoredFrame(t) /\ task'[t] # task[t])
                 => /\ gameVars' = gameVars
                    /\ task'[t].out = task[t].out
                    /\ task'[t].pc \in {"recv", "top"}
                    /\ task'[t].player = task[t].player]_vars

\* Two frames have been read and dispatched and nobody has logged in: both
\* were ignored, and the task that read them is back in recv.
C29_Witness ==
    /\ nrecv >= 2
    /\ rec = << >>
    /\ ub = "none"
    /\ \A t \in Tasks : task[t].pc \in {"none", "start", "recv"}
    /\ \E t \in Tasks : task[t].pc = "recv"

\* Task k of the view cache has sent the frames of a player_update_view.
Updated(k) == call.pc[k] \in {"memcpy", "done"}

\* The number of frames of `sent' equal to f.
Copies(sent, f) == Cardinality({i \in DOMAIN sent : sent[i] = f})

\* C22: player_update_view(p), with depth the value returned by
\* maze_get_view: when the cache is invalid at entry it sends exactly CLEAR
\* followed by one SHOW{view[d][x], x, d} for every d in [0,depth) and x in
\* [0,3); when the cache is valid it sends exactly one SHOW for each cell
\* with d in [0,depth) whose fresh value differs from last_view[d][x] and no
\* CLEAR.  Afterwards last_view equals the fresh view on [0,depth) x [0,3)
\* and view_valid_depth is depth.
C22_UpdateViewFrames ==
    /\ [](\A k \in {"R", "U"} :
             Updated(k)
                 => LET view == call.view[k]
                        depth == Len(view)
                        sent == call.sent[k]
                        last == call.entry[k].last
                        cells == (0..(depth - 1)) \X (0..2)
                        differ == {c \in cells :
                                      view[c[1] + 1][c[2] + 1] # last[c[1] + 1][c[2] + 1]}
                    IN  IF call.entry[k].valid < 0
                        THEN /\ Len(sent) = 1 + 3 * depth
                             /\ sent[1] = ClearFrame
                             /\ \A c \in cells :
                                    Copies(sent, <<"SHOW", view[c[1] + 1][c[2] + 1],
                                                   c[2], c[1]>>) = 1
                        ELSE /\ Len(sent) = Cardinality(differ)
                             /\ Copies(sent, ClearFrame) = 0
                             /\ \A c \in differ :
                                    Copies(sent, <<"SHOW", view[c[1] + 1][c[2] + 1],
                                                   c[2], c[1]>>) = 1)
    /\ [][\A k \in {"R", "U"} :
             (call.pc[k] = "memcpy" /\ call'.pc[k] = "done")
                 => /\ call'.view_valid_depth = Len(call.view[k])
                    /\ \A d \in 1..Len(call.view[k]) :
                           call'.last_view[d] = call.view[k][d]]_vars

\* One update has found the cache invalid, the other has found it valid and
\* has sent some cells of the view but not all.
C22_Witness ==
    /\ call.pc["R"] = "done" /\ call.pc["U"] = "done"
    /\ call.entry["R"].valid < 0
    /\ call.entry["U"].valid >= 0
    /\ Len(call.sent["U"]) > 0
    /\ Len(call.sent["U"]) < 3 * Len(call.view["U"])

\* C21: every REFRESH frame from a logged-in client results in the client
\* being sent a CLEAR followed by a SHOW for every cell (d,x) of its current
\* view, under every interleaving with the update_view calls that other
\* tasks make on the same player.
C21_RefreshRedraws ==
    call.pc["R"] = "done"
        => LET view == maze_get_view(maze, call.row, call.col, call.dir, VIEW_DEPTH)
           IN  \E i \in DOMAIN call.out :
                   /\ call.out[i] = ClearFrame
                   /\ \A d \in 0..(Len(view) - 1), x \in 0..2 :
                          \E j \in DOMAIN call.out :
                              /\ j > i
                              /\ call.out[j] = <<"SHOW", view[d + 1][x + 1], x, d>>

\* C30: maze_move(r, c, d) returns an error exactly when the source cell
\* does not hold an avatar or the neighbour in direction d is out of bounds
\* or not EMPTY.  In that case the grid is unchanged, player_move leaves
\* p.row, p.col and p.dir unchanged and returns the error, and no frame is
\* sent to a player whose view has not changed.
C30_MoveError ==
    call.pc \in {"views", "done"}
        => LET w == call.was
               d == IF call.sign = -1 THEN (w.dir + 2) % 4 ELSE w.dir
               offset == << <<-1, 0>>, <<0, -1>>, <<1, 0>>, <<0, 1>> >>
               nr == w.row + offset[d + 1][1]
               nc == w.col + offset[d + 1][2]
               blocked == \/ w.grid[w.row][w.col] \notin Letters
                          \/ nr \notin Rows
                          \/ nc \notin Cols
                          \/ w.grid[nr][nc] # EMPTY
           IN  /\ (call.rc # 0) <=> blocked
               /\ blocked
                     => /\ call.rc = -1
                        /\ maze = w.grid
                        /\ call.row = w.row /\ call.col = w.col /\ call.dir = w.dir
                        /\ (call.pc = "done" /\ w.shown) => call.sent = << >>

\* A move against a wall, and a move of a player that is not in its cell,
\* have failed and the views have been gone through.
C30_Witness ==
    /\ call.pc = "done"
    /\ call.rc = -1
    /\ call.was.shown
    /\ call.was.grid[call.was.row][call.was.col] = "A"
    /\ \E r \in Rows, c \in Cols : call.was.grid[r][c] = "*"

\* The program counters of player_fire_laser after maze_find_target has
\* returned an avatar.
FirePcs == {"fire_get", "fire_tag", "fire_kill", "fire_score", "fire_scores",
            "fire_unref"}

\* Service task t takes a step of player_fire_laser.
FireStep(t) ==
    /\ task'[t] # task[t]
    /\ \/ task[t].pc \in FirePcs
       \/ task[t].pc = "dispatch" /\ task[t].pkt[1] = "FIRE" /\ logged_in(task[t])

\* player_fire_laser returns with this step of t without having found a
\* victim: the target is no avatar, or player_get has returned NULL.
FireMisses(t) ==
    /\ FireStep(t)
    /\ task[t].pc \in {"dispatch", "fire_get"}
    /\ task'[t].pc = "top"

\* C23: player_fire_laser(p).  If maze_find_target returns the avatar of a
\* player V that is in the table, V.laser_hit is set, p.score increases by
\* exactly 1, a SCORE frame is sent to every player in the table, and the
\* call leaves V's ref_count as it found it (one reference taken, one
\* released).  Otherwise no player state changes and no frame is sent.  In
\* both cases the maze grid is unchanged.
C23_FireLaser ==
    [][\A t \in Tasks :
          LET r == task[t]
              p == r.player
              V == task'[t].victim
              q == r.victim
          IN  /\ FireStep(t) => maze' = maze
              /\ FireMisses(t) => rec' = rec /\ task'[t].out = r.out
              /\ (FireStep(t) /\ r.pc = "fire_get" /\ ~FireMisses(t) /\ ub' = "none")
                     => /\ V = player_map[r.target]
                        /\ rec'[V].ref_count = rec[V].ref_count + 1
                        /\ rec'[p].score = rec[p].score
              /\ (FireStep(t) /\ r.pc = "fire_tag")
                     => /\ rec'[q].laser_hit
                        /\ rec'[q].ref_count = rec[q].ref_count
                        /\ rec'[p].score = rec[p].score
              /\ (FireStep(t) /\ r.pc = "fire_kill")
                     => /\ rec'[q].laser_hit = rec[q].laser_hit \/ rec'[q].laser_hit
                        /\ rec'[q].ref_count = rec[q].ref_count
                        /\ rec'[p].score = rec[p].score
              /\ (FireStep(t) /\ r.pc = "fire_score")
                     => /\ rec'[p].score = rec[p].score + 1
                        /\ p # q => rec'[q].ref_count = rec[q].ref_count
              /\ (FireStep(t) /\ r.pc = "fire_scores")
                     => /\ rec' = rec
                        /\ task'[t].pc = "fire_unref"
                              => \A a \in r.seen \cap Table(player_map') :
                                     \E i \in DOMAIN task'[t].out :
                                         task'[t].out[i] = <<"SCORE", a>>
              /\ (FireStep(t) /\ r.pc = "fire_unref")
                     => /\ \/ rec'[q].live /\ rec'[q].ref_count = rec[q].ref_count - 1
                           \/ ~rec'[q].live /\ rec[q].ref_count = 1
                        /\ p # q => rec'[p].score = rec[p].score
              /\ (r.pc \in FirePcs /\ task'[t] = r /\ ub = "none")
                     => rec'[p].score = rec[p].score]_vars

\* A shot has hit: the shooter has returned to the top of its loop with a
\* score of 1 and the victim, still in the table, has its flag set.
C23_Witness ==
    \E t \in Tasks :
        /\ task[t].pc = "top"
        /\ task[t].player # NULL
        /\ rec[task[t].player].score = 1
        /\ \E i \in DOMAIN task[t].out :
               task[t].out[i] = <<"SCORE", task[t].player>>
        /\ \E v \in Table(player_map) \ {task[t].player} :
               /\ rec[v].laser_hit
               /\ \E i \in DOMAIN task[t].out : task[t].out[i] = <<"SCORE", v>>

\* Service task t is in player_check_for_laser_hit between the return of its
\* maze_remove_player and the placement in player_reset.
InPurgatory(t) ==
    \/ task[t].pc \in {"hit_views", "hit_alert", "purgatory"}
    \/ task[t].pc = "rs_place" /\ task[t].rsret \in {"recv", "dispatch"}

\* C24: player_check_for_laser_hit(p).  If laser_hit is not set it changes
\* nothing and sends nothing.  If it is set, the flag is read and cleared
\* under p's lock and then, in this order, the avatar is removed from the
\* maze, update_view is called for every table player, ALERT is sent to p,
\* the task sleeps and reset(p) runs.  From the removal until the placement
\* in reset p's avatar is in no maze cell and p executes no MOVE, TURN or
\* FIRE.
C24_HitProcessing ==
    /\ [](\A t \in Tasks :
             (InPurgatory(t) /\ ub = "none")
                 => LET p == task[t].this_player IN
                    /\ \A r \in Rows, c \in Cols : maze[r][c] # rec[p].avatar
                    /\ \A s \in Tasks :
                           task[s].player = p => task[s].pc # "dispatch")
    /\ [][\A t \in Tasks :
             LET r == task[t]
                 p == r.this_player
             IN  /\ (r.pc \in {"top", "post"} /\ task'[t] # r /\ ~rec[p].laser_hit)
                        => /\ rec' = rec /\ maze' = maze /\ player_map' = player_map
                           /\ task'[t].out = r.out
                           /\ task'[t].pc \in {"recv", "dispatch"}
                 /\ (r.pc \in {"top", "post"} /\ task'[t] # r /\ rec[p].laser_hit)
                        => /\ ~rec'[p].laser_hit
                           /\ task'[t].pc = "hit_remove"
                 /\ (r.pc = "hit_remove" /\ task'[t] # r)
                        => task'[t].pc = "hit_views" /\ task'[t].out = r.out
                 /\ (r.pc = "hit_views" /\ task'[t] # r)
                        => /\ task'[t].pc \in {"hit_views", "hit_alert"}
                           /\ task'[t].out = r.out
                           /\ task'[t].pc = "hit_alert"
                                 => task'[t].stale \cap Table(player_map') = {}
                 /\ (r.pc = "hit_alert" /\ task'[t] # r)
                        => /\ task'[t].pc = "purgatory"
                           /\ task'[t].out = Append(r.out, <<"ALERT", p>>)
                 /\ (r.pc = "purgatory" /\ task'[t] # r)
                        => task'[t].pc = "rs_place"]_vars

\* The frames of this type in `out' that are addressed to record q.
FramesTo(out, type, q) == {i \in DOMAIN out : out[i] = <<type, q>>}

\* C28: when the placement in player_reset(p) succeeds, p.avatar occupies
\* exactly one maze cell, which was EMPTY before and is the new
\* (p.row, p.col), and p.score is 0; when player_reset returns, p has been
\* sent a SCORE frame for every other player in the table, every player in
\* the table has been sent SCORE{p.avatar, 0}, and update_view has been
\* called for every player in the table.
C28_ResetPlaced ==
    [][\A t \in Tasks :
          LET r == task[t]
              p == r.this_player
          IN  /\ (r.pc = "rs_place" /\ task'[t].pc = "rs_others")
                 => /\ maze[rec'[p].row][rec'[p].col] = EMPTY
                    /\ \A row \in Rows, col \in Cols :
                           (maze'[row][col] = rec[p].avatar)
                               <=> (row = rec'[p].row /\ col = rec'[p].col)
                    /\ rec'[p].score = 0
              /\ (r.pc = "rs_views" /\ task'[t].pc = r.rsret /\ task'[t] # r)
                 => LET table == r.seen \cap Table(player_map') IN
                    /\ Cardinality(FramesTo(task'[t].out, "SCORE", p))
                           >= Cardinality(table \ {p}) + 1
                    /\ \A q \in table : FramesTo(task'[t].out, "SCORE", q) # {}
                    /\ task'[t].stale \cap table = {}]_vars

\* The players whose lock thread t holds from one step to the next.
HeldBy(t) == {p \in DOMAIN rec : rec[p].mutex = t}

\* C27: no task holds the locks of two different players at once, and every
\* loop over the player table runs after the caller has released the player
\* lock it held.  A service task holds a player lock from one step to the
\* next only inside player_reset, between its two maze primitives, and it
\* is the lock of its own player; the thread that runs player_fini locks
\* every player of the table in turn.  (The maze lock is taken and released
\* inside each maze primitive, which is part of a single step.)
C27_LockOrder ==
    /\ [](\A t \in Tasks :
             HeldBy(t) # {}
                 => /\ task[t].pc = "rs_place"
                    /\ HeldBy(t) = {task[t].this_player})
    /\ [][(lpc = "player_fini" /\ lpc' = "maze_fini")
             => \A q \in Table(player_map), t \in Tasks :
                    t = host => HeldBy(t) \subseteq {q}]_vars

C32_ChatSizeInBuffer ==
    call.pc \in {"send", "done"}
        => /\ call.size = Len(call.buf) - 1
           /\ call.size <= CHAT_BUF

\* C33: a MOVE by player P changes only cells that hold P's own avatar: the
\* maze_move call of player_move(P) never relocates the avatar of another
\* player, and never changes the cell of another player while that
\* player's (row, col) goes on pointing at the old cell.
C33_MoveOwnAvatarOnly ==
    [][\A t \in Tasks :
          (MoveSucceeds(t) /\ task'[t].pc = "mv_views")
              => LET p == task[t].player IN
                 /\ maze[rec[p].row][rec[p].col] = rec[p].avatar
                 /\ \A q \in Table(player_map) \ {p} :
                        (/\ maze[rec[q].row][rec[q].col] = rec[q].avatar
                         /\ rec'[q].row = rec[q].row
                         /\ rec'[q].col = rec[q].col)
                            => maze'[rec[q].row][rec[q].col] = rec[q].avatar]_vars

\* C34: once player_update_view has returned, the screen the client gets by
\* applying every CLEAR and SHOW frame in order shows the fresh view in the
\* rows below the current depth and nothing in the rows at or beyond it.
C34_ScreenIsFreshView ==
    call.op # "login"
        => LET view == maze_get_view(maze, call.row, call.col, call.dir, VIEW_DEPTH)
           IN  \A d \in 1..CacheRows :
                   call.screen[d] = IF d <= Len(view) THEN view[d] ELSE ZeroRow

\* C35: the single FIRE of A that hits B leads to at most one hit processing
\* of B: a task that has consumed the hit flag once (hret keeps where that
\* player_check_for_laser_hit returns to) never finds the flag set again and
\* starts a second removal, ALERT and respawn.
C35_OneHitPerShot ==
    [][task[2].hret # "none"
          => ~(task[2].pc \in {"top", "post"} /\ task'[2].pc = "hit_remove")]_vars

\* C36: creg_fini, player_fini and maze_fini run only when every service
\* task has unregistered and returned: once terminate has finalized the
\* registry, no service thread other than the one running terminate exists,
\* and no task has touched the freed registry, table, records or maze.
C36_FiniAfterTasksGone ==
    /\ ~creg_live => \A t \in Tasks \ {host} : task[t].pc = "none"
    /\ ub \notin {"registry_freed", "maze_freed"}

\* C37: when player_fire_laser sends SIGUSR1 to victim->thread_id, the thread
\* with that id is a service task that has not returned and whose
\* this_player is the victim record.
C37_SignalToBoundTask ==
    [][\A t \in Tasks :
          LET q == task[t].victim IN
          (/\ task[t].pc = "fire_kill"
           /\ Live(q)
           /\ task'[t].pc = "fire_score" \/ ub' = "kill_exited_thread")
              => /\ task[rec[q].thread_id].pc # "none"
                 /\ task[rec[q].thread_id].this_player = q]_vars

\* Service task t has logged q in with player_login and the READY reply is
\* not yet on q's connection.
BeforeReady(t, q) ==
    /\ task[t].pc \in {"ready", "ready_w"}
    /\ task[t].player = q

\* C38: after a successful LOGIN, READY is the first frame written to the
\* connection: no other task writes a frame addressed to the new player
\* before the READY reply is on the connection.
C38_ReadyFirst ==
    [][\A t \in Tasks, s \in Tasks, q \in DOMAIN rec :
          (s # t /\ BeforeReady(t, q)) => ~WritesTo(s, q)]_vars

\* Service task t is inside its loop and neither blocked in recv nor asleep
\* in purgatory.
Busy(t) == TaskRuns(t) /\ task[t].pc \notin {"none", "recv", "purgatory"}

\* Service task t waits for a lock: it has no step it can take.
Waits(t) == Busy(t) /\ ~ENABLED (SvcStep(t) \/ GameStep(t))

====
